---- MODULE Spec2Model ----
(***************************************************************************)
(* Multi-tenant connection-pool registry and tenant-scoped executor of     *)
(* rust-axum-api.                                                          *)
(*                                                                         *)
(* Part I  models src/src/database/schema_manager.rs: the registry         *)
(*         data_sources (pool_key -> PgPool behind a tokio RwLock) with    *)
(*         get_pool, close_pool, close_all_pools, initialize, shutdown.    *)
(* Part II models src/src/database/postgres_service.rs: the single pool    *)
(*         kept in a OnceCell and with_tenant.                             *)
(*                                                                         *)
(* Every await point of the source at which another task can run is the    *)
(* boundary between two actions; code between two await points that holds  *)
(* a lock guard is one action.                                             *)
(***************************************************************************)
EXTENDS Integers, Sequences, FiniteSets, TLC

\* ---------------------------------------------------------------------------
\* Bounds
\* ---------------------------------------------------------------------------

\* number of concurrently running tasks (requests) using the registry
NumTasks == 2

\* cap on the number of PgPool values constructed by create_pool in one run
MaxPools == 3

Tasks == 1..NumTasks

PoolIds == 1..MaxPools

\* "no pool": an absent HashMap entry, an unset local
NoPool == 0

\* ---------------------------------------------------------------------------
\* Namespace names and pool keys (strings as sequences of tokens)
\* ---------------------------------------------------------------------------

Master == <<"master">>

Tenants == <<"tenants">>

\* the schema names callers pass to get_pool / close_pool
Schemas == {Master, Tenants}

\* app: Option<&str>; None is the empty sequence
NoApp == <<>>

Apps == {NoApp}

\* pool_key: "{schema}_{app}" or just "{schema}"
PoolKey(schema_name, app) ==
    IF app = NoApp THEN schema_name ELSE schema_name \o <<"_">> \o app

AllKeys == {PoolKey(s, a) : s \in Schemas, a \in Apps}

\* ---------------------------------------------------------------------------
\* State of the registry service (schema_manager.rs)
\* ---------------------------------------------------------------------------
VARIABLES
    data_sources,   \* HashMap<String, PgPool>: key -> pool id, NoPool if absent
    wlock,          \* task holding the RwLock write guard, 0 if none
    closed,         \* pools for which close() has been called (is_closed())
    nPools,         \* number of pools constructed so far
    poolSchema,     \* pool id -> schema given to create_pool (search_path)
    poolFor,        \* pool id -> pool_key of the get_pool call that built it
    dbObjs,         \* schema objects existing in the database
    pc,             \* task -> position in the operation it runs
    op,             \* task -> top-level operation in progress
    key,            \* task -> pool_key local of the running call
    schema,         \* task -> schema_name argument of the running call
    lpool,          \* task -> local `pool` of get_pool / master_pool
    afterClose,     \* task -> its get_pool began after a pool of its key was closed
    drained,        \* task -> pools its close_all_pools found under the guard
    drain,          \* task -> keys the Drain iterator of close_all_pools holds
    lastCloseAll,   \* close_all_pools completed and no other call began since
    res             \* task -> result of the task's last completed call

regVars == <<data_sources, wlock, closed, nPools, poolSchema, poolFor, dbObjs,
             pc, op, key, schema, lpool, afterClose, drained,
             drain, lastCloseAll, res>>

\* result of a call that has not happened
NoRes == [op |-> "none", ok |-> TRUE, pool |-> NoPool, key |-> <<>>,
          path |-> "none"]

\* Ok(pool) / Err(..) of get_pool, Ok(()) / Err of the other operations
Result(o, okv, p, k, pathv) ==
    [op |-> o, ok |-> okv, pool |-> p, key |-> k, path |-> pathv]

\* DatabaseService::new
RegInit ==
    /\ data_sources = [k \in AllKeys |-> NoPool]
    /\ wlock = 0
    /\ closed = {}
    /\ nPools = 0
    /\ poolSchema = [p \in PoolIds |-> <<>>]
    /\ poolFor = [p \in PoolIds |-> <<>>]
    /\ dbObjs = {}
    /\ pc = [t \in Tasks |-> "idle"]
    /\ op = [t \in Tasks |-> "none"]
    /\ key = [t \in Tasks |-> <<>>]
    /\ schema = [t \in Tasks |-> <<>>]
    /\ lpool = [t \in Tasks |-> NoPool]
    /\ afterClose = [t \in Tasks |-> FALSE]
    /\ drained = [t \in Tasks |-> {}]
    /\ drain = [t \in Tasks |-> {}]
    /\ lastCloseAll = FALSE
    /\ res = [t \in Tasks |-> NoRes]

\* ---------------------------------------------------------------------------
\* Helpers
\* ---------------------------------------------------------------------------

\* the schema objects a namespace needs before it is usable: get_pool creates
\* the schema and (outside master/public) the update function; initialize adds
\* the function and the tenants table and trigger for the master namespace
RequiredObjs(s) ==
    IF s = Master
    THEN {<<"schema", Master>>, <<"function", Master>>,
          <<"table", Tenants>>, <<"trigger", Tenants>>}
    ELSE {<<"schema", s>>, <<"function", s>>}

\* pool.is_closed()
is_closed(p) == p \in closed

\* lines 347-348: the entry is present and its pool is not closed
CacheHit_inverted(p) == p # NoPool /\ is_closed(p)

CacheHit(p) == p # NoPool /\ ~is_closed(p)

\* pools.remove(&pool_key) (line 386): only the entry of the key goes
RemoveKey_all(k) == [kk \in AllKeys |-> NoPool]

RemoveKey(k) == [data_sources EXCEPT ![k] = NoPool]

\* pools.drain() (line 397): an entry the iterator yields is out of the map
AfterDrain_kept(k) == data_sources

AfterDrain(k) == [data_sources EXCEPT ![k] = NoPool]

\* pool.close() (lines 388, 399): the pool is closed from the call on; close
\* returns no error
ClosedAfterClose_failed(p) == closed

ClosedAfterClose(p) == closed \cup {p}

\* shutdown (192-195): both arms of the match on close_all_pools' result only
\* log; shutdown returns ()
ShutdownResult_failing(closeAllOk) == FALSE

ShutdownResult(closeAllOk) == TRUE

\* the read guard can be taken: no writer holds the RwLock
CanRead == wlock = 0

\* the write guard can be taken: no writer holds it (read guards are never
\* held across an await, so none is outstanding between two actions)
CanWrite == wlock = 0

\* a call of task t returns Ok/Err to the task's caller (the caller keeps a
\* returned pool handle in res until the task's next call starts)
Return(t, okv, p, pathv) ==
    /\ pc' = [pc EXCEPT ![t] = "idle"]
    /\ op' = [op EXCEPT ![t] = "none"]
    /\ lpool' = [lpool EXCEPT ![t] = NoPool]
    /\ key' = [key EXCEPT ![t] = <<>>]
    /\ schema' = [schema EXCEPT ![t] = <<>>]
    /\ afterClose' = [afterClose EXCEPT ![t] = FALSE]
    /\ drained' = [drained EXCEPT ![t] = {}]
    /\ drain' = [drain EXCEPT ![t] = {}]
    /\ lastCloseAll' = (op[t] \in {"close_all_pools", "shutdown"})
    /\ res' = [res EXCEPT ![t] = Result(op[t], okv, p, key[t], pathv)]

\* get_pool returns: Ok(pool) inside initialize (get_master_pool, line 77)
\* continues with initialize_database, an Err is propagated by `?`
get_pool_return(t, okv, p, pathv) ==
    IF op[t] = "initialize" /\ okv
    THEN /\ pc' = [pc EXCEPT ![t] = "in_tz"]
         /\ lpool' = [lpool EXCEPT ![t] = p]
         /\ UNCHANGED <<op, afterClose, drained, drain, lastCloseAll, key, schema, res>>
    ELSE Return(t, okv, IF okv THEN p ELSE NoPool, pathv)

\* ---------------------------------------------------------------------------
\* get_pool (schema_manager.rs 338-376)
\* ---------------------------------------------------------------------------

\* a task calls get_pool(schema_name, app): lines 339-342 build pool_key
call_get_pool(t, s, a) ==
    /\ pc[t] = "idle"
    /\ pc' = [pc EXCEPT ![t] = "gp_enter"]
    /\ res' = [res EXCEPT ![t] = NoRes]
    /\ afterClose' = [afterClose EXCEPT ![t] =
            \E p \in closed : poolFor[p] = PoolKey(s, a)]
    /\ lastCloseAll' = FALSE
    /\ UNCHANGED <<drained, drain>>
    /\ op' = [op EXCEPT ![t] = "get_pool"]
    /\ key' = [key EXCEPT ![t] = PoolKey(s, a)]
    /\ schema' = [schema EXCEPT ![t] = s]
    /\ UNCHANGED <<data_sources, wlock, closed, nPools, poolSchema, poolFor,
                   dbObjs, lpool>>

\* lines 344-355: under the read guard, a present pool that is not closed is
\* cloned and returned; otherwise the guard is dropped and the slow path starts
get_pool_lookup(t) ==
    /\ pc[t] = "gp_enter"
    /\ CanRead
    /\ LET p == data_sources[key[t]]
       IN  IF CacheHit(p)
           THEN get_pool_return(t, TRUE, p, "fast")
           ELSE /\ pc' = [pc EXCEPT ![t] = "gp_ensure"]
                /\ UNCHANGED <<op, afterClose, drained, drain, lastCloseAll, key, schema, lpool, res>>
    /\ UNCHANGED <<data_sources, wlock, closed, nPools, poolSchema, poolFor,
                   dbObjs>>

\* line 359 and 446-469: ensure_schema_exists; "public" is skipped, otherwise
\* a one-connection pool runs CREATE SCHEMA IF NOT EXISTS; connecting or the
\* statement may fail (dbOk = FALSE) and `?` returns the error
ensure_schema_exists(t, dbOk) ==
    /\ pc[t] = "gp_ensure"
    /\ IF dbOk
       THEN /\ dbObjs' = dbObjs \cup {<<"schema", schema[t]>>}
            /\ pc' = [pc EXCEPT ![t] = "gp_create"]
            /\ UNCHANGED <<op, afterClose, drained, drain, lastCloseAll, key, schema, lpool, res>>
       ELSE /\ get_pool_return(t, FALSE, NoPool, "slow")
            /\ UNCHANGED dbObjs
    /\ UNCHANGED <<data_sources, wlock, closed, nPools, poolSchema, poolFor>>

\* line 360 and 472-484: create_pool(schema) builds a new PgPool whose
\* search_path is the schema; connecting may fail
create_pool(t, dbOk) ==
    /\ pc[t] = "gp_create"
    /\ IF dbOk
       THEN /\ nPools < MaxPools
            /\ nPools' = nPools + 1
            /\ poolSchema' = [poolSchema EXCEPT ![nPools + 1] = schema[t]]
            /\ poolFor' = [poolFor EXCEPT ![nPools + 1] = key[t]]
            /\ lpool' = [lpool EXCEPT ![t] = nPools + 1]
            /\ pc' = [pc EXCEPT ![t] = "gp_func"]
            /\ UNCHANGED <<op, afterClose, drained, drain, lastCloseAll, key, schema, res>>
       ELSE /\ get_pool_return(t, FALSE, NoPool, "slow")
            /\ UNCHANGED <<nPools, poolSchema, poolFor>>
    /\ UNCHANGED <<data_sources, wlock, closed, dbObjs>>

\* lines 362-366: outside master and public, create_update_function runs on
\* the new pool; on failure the local pool is dropped and the error returned
get_pool_update_function(t, dbOk) ==
    /\ pc[t] = "gp_func"
    /\ IF schema[t] # Master /\ schema[t] # <<"public">>
       THEN IF dbOk
            THEN /\ dbObjs' = dbObjs \cup {<<"function", schema[t]>>}
                 /\ pc' = [pc EXCEPT ![t] = "gp_insert"]
                 /\ UNCHANGED <<op, afterClose, drained, drain, lastCloseAll, key, schema, lpool, res>>
            ELSE /\ get_pool_return(t, FALSE, NoPool, "slow")
                 /\ UNCHANGED dbObjs
       ELSE /\ dbOk
            /\ pc' = [pc EXCEPT ![t] = "gp_insert"]
            /\ UNCHANGED <<dbObjs, op, afterClose, drained, drain, lastCloseAll, key, schema, lpool, res>>
    /\ UNCHANGED <<data_sources, wlock, closed, nPools, poolSchema, poolFor>>

\* lines 368-372: take the write guard, insert the pool under pool_key
\* (replacing whatever is stored there), drop the guard
get_pool_insert(t) ==
    /\ pc[t] = "gp_insert"
    /\ CanWrite
    /\ data_sources' = [data_sources EXCEPT ![key[t]] = lpool[t]]
    /\ pc' = [pc EXCEPT ![t] = "gp_ret"]
    /\ UNCHANGED <<wlock, closed, nPools, poolSchema, poolFor, dbObjs, op, afterClose, drained, drain, lastCloseAll,
                   key, schema, lpool, res>>

\* lines 374-375: after the guard is gone, Ok(pool) is returned
get_pool_ok(t) ==
    /\ pc[t] = "gp_ret"
    /\ get_pool_return(t, TRUE, lpool[t], "slow")
    /\ UNCHANGED <<data_sources, wlock, closed, nPools, poolSchema, poolFor,
                   dbObjs>>

\* core/server.rs 36: the TimeoutLayer drops the request's future when the
\* timeout fires; get_pool runs inside that future (nothing is spawned), so
\* it stops at the await point it is suspended at (the read guard, line 345;
\* ensure_schema_exists, 359; create_pool, 360; create_update_function, 364;
\* the write guard, 370) and its locals, the new pool included, are dropped
abandon_get_pool(t) ==
    /\ op[t] = "get_pool"
    /\ pc[t] \in {"gp_enter", "gp_ensure", "gp_create", "gp_func", "gp_insert"}
    /\ Return(t, FALSE, NoPool, "abandoned")
    /\ UNCHANGED <<data_sources, wlock, closed, nPools, poolSchema, poolFor,
                   dbObjs>>

\* ---------------------------------------------------------------------------
\* close_pool (379-392) and close_all_pools (395-403)
\* ---------------------------------------------------------------------------

\* a task calls close_pool(schema_name, app)
call_close_pool(t, s, a) ==
    /\ pc[t] = "idle"
    /\ pc' = [pc EXCEPT ![t] = "cp_enter"]
    /\ res' = [res EXCEPT ![t] = NoRes]
    /\ UNCHANGED <<afterClose, drained, drain>>
    /\ lastCloseAll' = FALSE
    /\ op' = [op EXCEPT ![t] = "close_pool"]
    /\ key' = [key EXCEPT ![t] = PoolKey(s, a)]
    /\ schema' = [schema EXCEPT ![t] = s]
    /\ UNCHANGED <<data_sources, wlock, closed, nPools, poolSchema, poolFor,
                   dbObjs, lpool>>

\* lines 385-388: take the write guard and remove the key; a removed pool has
\* close() called on it (is_closed() is true from then on) and the task awaits
\* the close with the guard held; an absent key returns Ok(()) at once
close_pool_remove(t) ==
    /\ pc[t] = "cp_enter"
    /\ CanWrite
    /\ LET p == data_sources[key[t]]
       IN  IF p # NoPool
           THEN /\ data_sources' = RemoveKey(key[t])
                /\ closed' = ClosedAfterClose(p)
                /\ wlock' = t
                /\ pc' = [pc EXCEPT ![t] = "cp_wait"]
                /\ UNCHANGED <<op, afterClose, drained, drain, lastCloseAll, key, schema, lpool, res>>
           ELSE /\ Return(t, TRUE, NoPool, "absent")
                /\ UNCHANGED <<data_sources, closed, wlock>>
    /\ UNCHANGED <<nPools, poolSchema, poolFor, dbObjs>>

\* lines 388-391: pool.close().await completes, the guard is dropped, Ok(())
close_pool_done(t) ==
    /\ pc[t] = "cp_wait"
    /\ wlock = t
    /\ wlock' = 0
    /\ Return(t, TRUE, NoPool, "closed")
    /\ UNCHANGED <<data_sources, closed, nPools, poolSchema, poolFor, dbObjs>>

\* a task calls close_all_pools()
call_close_all_pools(t) ==
    /\ pc[t] = "idle"
    /\ pc' = [pc EXCEPT ![t] = "ca_enter"]
    /\ res' = [res EXCEPT ![t] = NoRes]
    /\ UNCHANGED <<afterClose, drained, drain, lastCloseAll>>
    /\ op' = [op EXCEPT ![t] = "close_all_pools"]
    /\ UNCHANGED <<data_sources, wlock, closed, nPools, poolSchema, poolFor,
                   dbObjs, key, schema, lpool>>

\* a task calls shutdown() (189-198), which calls close_all_pools() (line 192)
call_shutdown(t) ==
    /\ pc[t] = "idle"
    /\ pc' = [pc EXCEPT ![t] = "ca_enter"]
    /\ res' = [res EXCEPT ![t] = NoRes]
    /\ UNCHANGED <<afterClose, drained, drain, lastCloseAll>>
    /\ op' = [op EXCEPT ![t] = "shutdown"]
    /\ UNCHANGED <<data_sources, wlock, closed, nPools, poolSchema, poolFor,
                   dbObjs, key, schema, lpool>>

\* line 396: take the write guard
close_all_pools_lock(t) ==
    /\ pc[t] = "ca_enter"
    /\ CanWrite
    /\ wlock' = t
    /\ pc' = [pc EXCEPT ![t] = "ca_loop"]
    /\ drained' = [drained EXCEPT ![t] =
            {data_sources[k] : k \in AllKeys} \ {NoPool}]
    /\ drain' = [drain EXCEPT ![t] =
            {k \in AllKeys : data_sources[k] # NoPool}]
    /\ UNCHANGED <<data_sources, closed, nPools, poolSchema, poolFor, dbObjs,
                   op, afterClose, lastCloseAll, key, schema, lpool, res>>

\* lines 397-401: one iteration of the drain: the iterator yields its next
\* entry (any order), which leaves the map, and the pool is closed and awaited
close_all_pools_step(t, k) ==
    /\ pc[t] = "ca_loop"
    /\ wlock = t
    /\ k \in drain[t]
    /\ drain' = [drain EXCEPT ![t] = @ \ {k}]
    /\ data_sources' = AfterDrain(k)
    /\ closed' = ClosedAfterClose(data_sources[k])
    /\ UNCHANGED <<wlock, nPools, poolSchema, poolFor, dbObjs, pc, op,
                   afterClose, drained, lastCloseAll, key, schema, lpool, res>>

\* line 402: the iterator is exhausted, the guard is dropped, Ok(())
close_all_pools_done(t) ==
    /\ pc[t] = "ca_loop"
    /\ wlock = t
    /\ drain[t] = {}
    /\ wlock' = 0
    /\ Return(t, IF op[t] = "shutdown" THEN ShutdownResult(TRUE) ELSE TRUE,
              NoPool, IF drained[t] = {} THEN "empty" ELSE "drained")
    /\ UNCHANGED <<data_sources, closed, nPools, poolSchema, poolFor, dbObjs>>

\* ---------------------------------------------------------------------------
\* initialize (70-83), verify_database_connectivity (87-184),
\* initialize_database (233-249)
\* ---------------------------------------------------------------------------

\* a task calls initialize()
call_initialize(t) ==
    /\ pc[t] = "idle"
    /\ pc' = [pc EXCEPT ![t] = "in_verify"]
    /\ res' = [res EXCEPT ![t] = NoRes]
    /\ UNCHANGED <<afterClose, drained, drain>>
    /\ lastCloseAll' = FALSE
    /\ op' = [op EXCEPT ![t] = "initialize"]
    /\ UNCHANGED <<data_sources, wlock, closed, nPools, poolSchema, poolFor,
                   dbObjs, key, schema, lpool>>

\* lines 74-77: the connectivity check (its own short-lived pool, closed
\* before it returns) fails and `?` returns, or succeeds and get_master_pool
\* = get_pool("master", None) is called
verify_database_connectivity_late(t, dbOk) ==
    /\ pc[t] = "in_verify"
    /\ IF dbOk
       THEN /\ pc' = [pc EXCEPT ![t] = "gp_enter"]
            /\ key' = [key EXCEPT ![t] = PoolKey(Master, NoApp)]
            /\ schema' = [schema EXCEPT ![t] = Master]
            /\ UNCHANGED <<op, afterClose, drained, drain, lastCloseAll, lpool, res>>
       ELSE Return(t, FALSE, NoPool, "verify")
    /\ dbObjs' = dbObjs \cup {<<"schema", Master>>}
    /\ UNCHANGED <<data_sources, wlock, closed, nPools, poolSchema, poolFor>>

verify_database_connectivity(t, dbOk) ==
    /\ pc[t] = "in_verify"
    /\ IF dbOk
       THEN /\ pc' = [pc EXCEPT ![t] = "gp_enter"]
            /\ key' = [key EXCEPT ![t] = PoolKey(Master, NoApp)]
            /\ schema' = [schema EXCEPT ![t] = Master]
            /\ UNCHANGED <<op, afterClose, drained, drain, lastCloseAll, lpool, res>>
       ELSE Return(t, FALSE, NoPool, "verify")
    /\ UNCHANGED <<data_sources, wlock, closed, nPools, poolSchema, poolFor,
                   dbObjs>>

\* a statement run on a pool fails when the pool is closed, and may fail in
\* the database otherwise
StatementOk(p, dbOk) == dbOk /\ ~is_closed(p)

\* lines 235-238: SET timezone = 'UTC' on the master pool
initialize_database_timezone(t, dbOk) ==
    /\ pc[t] = "in_tz"
    /\ IF StatementOk(lpool[t], dbOk)
       THEN /\ pc' = [pc EXCEPT ![t] = "in_func"]
            /\ UNCHANGED <<op, afterClose, drained, drain, lastCloseAll, key, schema, lpool, res>>
       ELSE Return(t, FALSE, lpool[t], "baseline")
    /\ UNCHANGED <<data_sources, wlock, closed, nPools, poolSchema, poolFor,
                   dbObjs>>

\* line 241: create_update_function on the master pool
initialize_database_function(t, dbOk) ==
    /\ pc[t] = "in_func"
    /\ IF StatementOk(lpool[t], dbOk)
       THEN /\ dbObjs' = dbObjs \cup {<<"function", poolSchema[lpool[t]]>>}
            /\ pc' = [pc EXCEPT ![t] = "in_tenants"]
            /\ UNCHANGED <<op, afterClose, drained, drain, lastCloseAll, key, schema, lpool, res>>
       ELSE /\ Return(t, FALSE, lpool[t], "baseline")
            /\ UNCHANGED dbObjs
    /\ UNCHANGED <<data_sources, wlock, closed, nPools, poolSchema, poolFor>>

\* lines 245-248: create_tenants_schema runs the tenants script (schema,
\* table, trigger) as one batch; then initialize returns Ok(())
initialize_database_tenants(t, dbOk) ==
    /\ pc[t] = "in_tenants"
    /\ IF StatementOk(lpool[t], dbOk)
       THEN /\ dbObjs' = dbObjs \cup {<<"schema", Tenants>>,
                                      <<"table", Tenants>>,
                                      <<"trigger", Tenants>>}
            /\ Return(t, TRUE, lpool[t], "baseline")
       ELSE /\ Return(t, FALSE, lpool[t], "baseline")
            /\ UNCHANGED dbObjs
    /\ UNCHANGED <<data_sources, wlock, closed, nPools, poolSchema, poolFor>>

\* ===========================================================================
\* Part II: the single-pool service and with_tenant (postgres_service.rs)
\* ===========================================================================

\* number of physical connections of the pool that the tasks share
NumConns == 2

\* cap on the number of rows inserted in one run
MaxRows == 2

Conns == 1..NumConns

\* tenant identifiers (uuid_A, uuid_B)
TenantIds == {"tA", "tB"}

\* no app.current_tenant_id setting in effect
NoTenant == "none"

\* values a unit of work returns in Ok(..) and errors it returns in Err(..)
WorkVals == {"v1", "v2"}

WorkErrs == {"e1", "e2"}

VARIABLES
    cell,           \* OnceCell<PgPool>: TRUE once the pool is set
    cellClosed,     \* close() has been called on the pool
    connOwner,      \* connection -> task whose transaction leases it, 0 if idle
    sessionMarker,  \* connection -> session-level app.current_tenant_id
    localMarker,    \* connection -> transaction-local (SET LOCAL) value
    txWrites,       \* connection -> rows written by its open transaction
    committed,      \* rows of the users table that are committed
    nRows,          \* number of rows inserted so far (row identities)
    lost,           \* <<row id, cause>> of rows whose transaction did not commit
    xpc,            \* task -> position inside with_tenant / initialize
    xtenant,        \* task -> tenant_id argument of the running with_tenant
    xconn,          \* task -> connection of its transaction, 0 if none
    xwork,          \* task -> what block(&mut tx) returned
    xseen,          \* task -> rows returned by the queries of the running block
    xhidden,        \* task -> rows in the table that those queries left out
    xbegin,         \* task -> marker found on the connection at begin
    xres            \* task -> what the task's last call returned, and how

txVars == <<cell, cellClosed, connOwner, sessionMarker, localMarker, txWrites,
            committed, nRows, lost, xpc, xtenant, xconn, xwork, xseen, xhidden,
            xbegin, xres>>

\* block has not returned
NoWork == [ok |-> TRUE, val |-> "none"]

\* nothing returned yet
NoXRes == [op |-> "none", ok |-> TRUE, val |-> "none", context |-> "none",
           work |-> NoWork, commit |-> "none", rollback |-> "none",
           tenant |-> NoTenant, conn |-> 0]

\* Ok(val), or Err(val) with the anyhow context that wraps it ("none": bare),
\* together with what the call did: block's result, the outcome of
\* tx.commit() and of tx.rollback() ("none": not called); XReturn adds the
\* call's tenant_id and the connection its transaction used
XResult(o, okv, v, ctx, w, cm, rb) ==
    [op |-> o, ok |-> okv, val |-> v, context |-> ctx,
     work |-> w, commit |-> cm, rollback |-> rb,
     tenant |-> NoTenant, conn |-> 0]

\* DatabaseService::new (36-43): the pool is not set
TxInit ==
    /\ cell = FALSE
    /\ cellClosed = FALSE
    /\ connOwner = [c \in Conns |-> 0]
    /\ sessionMarker = [c \in Conns |-> NoTenant]
    /\ localMarker = [c \in Conns |-> NoTenant]
    /\ txWrites = [c \in Conns |-> {}]
    /\ committed = {}
    /\ nRows = 0
    /\ lost = {}
    /\ xpc = [t \in Tasks |-> "idle"]
    /\ xtenant = [t \in Tasks |-> NoTenant]
    /\ xconn = [t \in Tasks |-> 0]
    /\ xwork = [t \in Tasks |-> NoWork]
    /\ xseen = [t \in Tasks |-> {}]
    /\ xhidden = [t \in Tasks |-> {}]
    /\ xbegin = [t \in Tasks |-> NoTenant]
    /\ xres = [t \in Tasks |-> NoXRes]

\* ---------------------------------------------------------------------------
\* The database session as the statements of with_tenant use it
\* ---------------------------------------------------------------------------

\* current_setting('app.current_tenant_id') on connection c
CurrentTenant(c) ==
    IF localMarker[c] # NoTenant THEN localMarker[c] ELSE sessionMarker[c]

\* the value bound to $1 of the marker statement (line 99: .bind(tenant_id))
MarkerValue_first(tenant_id) == "tA"

MarkerValue(tenant_id) == tenant_id

\* "SET LOCAL app.current_tenant_id = $1" (line 98): the value lives in the
\* transaction; the session-level value of the connection is left alone
SessionAfterSet_plain(c, v) == [sessionMarker EXCEPT ![c] = v]

SessionAfterSet(c, v) == sessionMarker

LocalAfterSet_none(c, v) == localMarker

LocalAfterSet(c, v) == [localMarker EXCEPT ![c] = v]

\* the rows a query on connection c returns: the committed rows and the
\* transaction's own writes, filtered by the row-level policy
\* tenant_id = current_setting('app.current_tenant_id')
VisibleRows(c) ==
    {r \in committed \cup txWrites[c] : r.tenant_id = CurrentTenant(c)}

\* tx.commit() that succeeded makes the transaction's writes durable
CommittedAfterCommit(c) == committed \cup txWrites[c]

\* tx.rollback() (line 114), a commit that failed, or dropping the
\* transaction: the writes are discarded
CommittedAfterRollback_keeps(c) == committed \cup txWrites[c]

CommittedAfterRollback(c) == committed

\* line 109-110: Ok(val) after a commit that succeeded, the commit's error
\* with context otherwise
ResultOfCommit_ignored(w, commitOk) ==
    XResult("with_tenant", TRUE, w.val, "none", w,
            IF commitOk THEN "ok" ELSE "failed", "none")

ResultOfCommit(w, commitOk) ==
    IF commitOk
    THEN XResult("with_tenant", TRUE, w.val, "none", w, "ok", "none")
    ELSE XResult("with_tenant", FALSE, "db", "Failed to commit transaction",
                 w, "failed", "none")

\* lines 114-115: the rollback's own result is discarded, Err(e) is returned
ResultOfRollback_checked(w, rollbackOk) ==
    IF rollbackOk
    THEN XResult("with_tenant", FALSE, w.val, "none", w, "none", "ok")
    ELSE XResult("with_tenant", FALSE, "db", "none", w, "none", "failed")

ResultOfRollback(w, rollbackOk) ==
    XResult("with_tenant", FALSE, w.val, "none", w, "none",
            IF rollbackOk THEN "ok" ELSE "failed")

\* the transaction on connection c ends (commit, rollback or drop): the
\* transaction-local settings are gone and the connection returns to the pool
EndTransaction(t, c, newCommitted, cause) ==
    /\ committed' = newCommitted
    /\ lost' = IF cause = "committed" THEN lost
               ELSE lost \cup {<<r.id, cause>> : r \in txWrites[c]}
    /\ txWrites' = [txWrites EXCEPT ![c] = {}]
    /\ localMarker' = [localMarker EXCEPT ![c] = NoTenant]
    /\ connOwner' = [connOwner EXCEPT ![c] = 0]
    /\ xconn' = [xconn EXCEPT ![t] = 0]

\* the task's call returns r; the call's locals are gone
XReturn(t, r) ==
    /\ xpc' = [xpc EXCEPT ![t] = "idle"]
    /\ xres' = [xres EXCEPT ![t] =
                    [r EXCEPT !.tenant = xtenant[t], !.conn = xconn[t]]]
    /\ xhidden' = [xhidden EXCEPT ![t] = {}]
    /\ xtenant' = [xtenant EXCEPT ![t] = NoTenant]
    /\ xwork' = [xwork EXCEPT ![t] = NoWork]
    /\ xseen' = [xseen EXCEPT ![t] = {}]
    /\ xbegin' = [xbegin EXCEPT ![t] = NoTenant]

\* ---------------------------------------------------------------------------
\* initialize (46-62), shutdown (65-73)
\* ---------------------------------------------------------------------------

\* lines 50-52: a task calls initialize(); get_or_try_init keeps a pool that
\* is set, otherwise create_pool runs and its pool is stored, or its error
\* is returned with the cell still empty
rls_initialize(t, dbOk) ==
    /\ xpc[t] = "idle"
    /\ IF cell \/ dbOk
       THEN /\ cell' = TRUE
            /\ xpc' = [xpc EXCEPT ![t] = "ini_schema"]
            /\ xres' = [xres EXCEPT ![t] = NoXRes]
            /\ UNCHANGED <<xtenant, xwork, xseen, xhidden, xbegin>>
       ELSE /\ XReturn(t, XResult("initialize", FALSE, "db",
                          "Failed to create database connection pool",
                          NoWork, "none", "none"))
            /\ UNCHANGED cell
    /\ UNCHANGED <<cellClosed, connOwner, sessionMarker, localMarker,
                   txWrites, committed, nRows, lost, xconn>>

\* lines 55-61 and 169-178: initialize_schema executes the init script on
\* the pool
initialize_schema(t, dbOk) ==
    /\ xpc[t] = "ini_schema"
    /\ IF dbOk /\ ~cellClosed
       THEN XReturn(t, XResult("initialize", TRUE, "none", "none",
                               NoWork, "none", "none"))
       ELSE XReturn(t, XResult("initialize", FALSE, "db",
                       "Failed to execute schema initialization SQL",
                       NoWork, "none", "none"))
    /\ UNCHANGED <<cell, cellClosed, connOwner, sessionMarker, localMarker,
                   txWrites, committed, nRows, lost, xconn>>

\* lines 65-73: shutdown closes the pool when it is set
rls_shutdown(t) ==
    /\ xpc[t] = "idle"
    /\ cellClosed' = (cellClosed \/ cell)
    /\ XReturn(t, XResult("shutdown", TRUE, "none", "none",
                          NoWork, "none", "none"))
    /\ UNCHANGED <<cell, connOwner, sessionMarker, localMarker, txWrites,
                   committed, nRows, lost, xconn>>

\* ---------------------------------------------------------------------------
\* with_tenant (90-118)
\* ---------------------------------------------------------------------------

\* unchanged by every step that touches no connection
ConnsUnchanged ==
    UNCHANGED <<connOwner, sessionMarker, localMarker, txWrites, committed,
                lost, xconn>>

\* line 94: a task calls with_tenant(tenant_id, block); get_pool()? returns
\* the error at once when the pool is not set
call_with_tenant(t, tenant_id) ==
    /\ xpc[t] = "idle"
    /\ IF cell
       THEN /\ xpc' = [xpc EXCEPT ![t] = "wt_begin"]
            /\ xtenant' = [xtenant EXCEPT ![t] = tenant_id]
            /\ xres' = [xres EXCEPT ![t] = NoXRes]
            /\ UNCHANGED <<xwork, xseen, xhidden, xbegin>>
       ELSE XReturn(t, XResult("with_tenant", FALSE,
                               "Database pool not initialized", "none",
                               NoWork, "none", "none"))
    /\ ConnsUnchanged
    /\ UNCHANGED <<cell, cellClosed, nRows>>

\* line 95: pool.begin() leases an idle connection c and opens a transaction
with_tenant_begin(t, c) ==
    /\ xpc[t] = "wt_begin"
    /\ ~cellClosed
    /\ connOwner[c] = 0
    /\ connOwner' = [connOwner EXCEPT ![c] = t]
    /\ xconn' = [xconn EXCEPT ![t] = c]
    /\ xbegin' = [xbegin EXCEPT ![t] = CurrentTenant(c)]
    /\ xpc' = [xpc EXCEPT ![t] = "wt_marker"]
    /\ UNCHANGED <<cell, cellClosed, sessionMarker, localMarker, txWrites,
                   committed, nRows, lost, xtenant, xwork, xseen, xhidden, xres>>

\* line 95: pool.begin() fails (closed pool, acquire timeout, connection
\* error) and `?` returns the error with its context
with_tenant_begin_failed(t) ==
    /\ xpc[t] = "wt_begin"
    /\ XReturn(t, XResult("with_tenant", FALSE, "db",
                          "Failed to begin transaction",
                          NoWork, "none", "none"))
    /\ ConnsUnchanged
    /\ UNCHANGED <<cell, cellClosed, nRows>>

\* lines 98-102: the marker statement; on failure `?` returns, the
\* transaction is dropped (rolled back) and the connection released
with_tenant_marker(t, dbOk) ==
    /\ xpc[t] = "wt_marker"
    /\ LET c == xconn[t]
       IN  IF dbOk
           THEN /\ localMarker' = LocalAfterSet(c, MarkerValue(xtenant[t]))
                /\ sessionMarker' = SessionAfterSet(c, MarkerValue(xtenant[t]))
                /\ xpc' = [xpc EXCEPT ![t] = "wt_work"]
                /\ UNCHANGED <<connOwner, txWrites, committed, lost, xconn,
                               xres, xtenant, xwork, xseen, xhidden, xbegin>>
           ELSE /\ EndTransaction(t, c, CommittedAfterRollback(c), "dropped")
                /\ XReturn(t, XResult("with_tenant", FALSE, "db",
                                      "Failed to set tenant context",
                                      NoWork, "none", "none"))
                /\ UNCHANGED sessionMarker
    /\ UNCHANGED <<cell, cellClosed, nRows>>

\* line 105, block(&mut tx): the unit of work inserts a row for its tenant
\* (auth/handler.rs 58-74: INSERT INTO users (tenant_id, ..) with
\* ctx.tenant_id)
work_insert(t) ==
    /\ xpc[t] = "wt_work"
    /\ nRows < MaxRows
    /\ LET c == xconn[t]
           row == [id |-> nRows + 1, tenant_id |-> xtenant[t]]
       IN  txWrites' = [txWrites EXCEPT ![c] = @ \cup {row}]
    /\ nRows' = nRows + 1
    /\ UNCHANGED <<cell, cellClosed, connOwner, sessionMarker, localMarker,
                   committed, lost, xpc, xtenant, xconn, xwork, xseen, xhidden, xbegin,
                   xres>>

\* line 105, block(&mut tx): the unit of work queries the table without a
\* tenant predicate (auth/handler.rs 114-130: SELECT .. FROM users)
work_select(t) ==
    /\ xpc[t] = "wt_work"
    /\ xseen' = [xseen EXCEPT ![t] = @ \cup VisibleRows(xconn[t])]
    /\ xhidden' = [xhidden EXCEPT ![t] =
           @ \cup ((committed \cup txWrites[xconn[t]])
                      \ VisibleRows(xconn[t]))]
    /\ ConnsUnchanged
    /\ UNCHANGED <<cell, cellClosed, nRows, xpc, xtenant, xwork, xbegin, xres>>

\* lines 105-107: block returns Ok(v) or Err(e)
work_return(t, okv, v) ==
    /\ xpc[t] = "wt_work"
    /\ xwork' = [xwork EXCEPT ![t] = [ok |-> okv, val |-> v]]
    /\ xpc' = [xpc EXCEPT ![t] = IF okv THEN "wt_commit" ELSE "wt_rollback"]
    /\ ConnsUnchanged
    /\ UNCHANGED <<cell, cellClosed, nRows, xtenant, xseen, xhidden, xbegin, xres>>

\* lines 108-111: tx.commit(); its failure aborts the transaction
with_tenant_commit(t, dbOk) ==
    /\ xpc[t] = "wt_commit"
    /\ LET c == xconn[t]
       IN  IF dbOk
           THEN EndTransaction(t, c, CommittedAfterCommit(c), "committed")
           ELSE EndTransaction(t, c, CommittedAfterRollback(c),
                               "commit_failed")
    /\ XReturn(t, ResultOfCommit(xwork[t], dbOk))
    /\ UNCHANGED <<cell, cellClosed, sessionMarker, nRows>>

\* lines 112-116: tx.rollback(), result discarded, then Err(e)
with_tenant_rollback(t, dbOk) ==
    /\ xpc[t] = "wt_rollback"
    /\ EndTransaction(t, xconn[t], CommittedAfterRollback(xconn[t]),
                      "work_failed")
    /\ XReturn(t, ResultOfRollback(xwork[t], dbOk))
    /\ UNCHANGED <<cell, cellClosed, sessionMarker, nRows>>

\* ===========================================================================
\* Part III: the timing of verify_database_connectivity
\*           (schema_manager.rs 87-184)
\* ===========================================================================

\* tokio::time::timeout(Duration::from_secs(5), ..) around connect_with
ConnectTimeout == 5

\* seconds of waiting the model follows a guard for
MaxWait == 8

VARIABLES
    gpc,        \* task -> step of the guard it waits in
    gclock,     \* task -> seconds since its guard started
    gres        \* task -> what its last guard returned

guardVars == <<gpc, gclock, gres>>

\* no guard has run
GuardInit ==
    /\ gpc = [t \in Tasks |-> "idle"]
    /\ gclock = [t \in Tasks |-> 0]
    /\ gres = [t \in Tasks |-> "none"]

\* the guard returns r to initialize
GuardReturn(t, r) ==
    /\ gpc' = [gpc EXCEPT ![t] = "idle"]
    /\ gclock' = [gclock EXCEPT ![t] = 0]
    /\ gres' = [gres EXCEPT ![t] = r]

\* line 74: initialize calls the guard; lines 90-98 start connect_with inside
\* the 5 second timeout
call_verify(t) ==
    /\ gpc[t] = "idle"
    /\ gpc' = [gpc EXCEPT ![t] = "connect"]
    /\ gclock' = [gclock EXCEPT ![t] = 0]
    /\ gres' = [gres EXCEPT ![t] = "none"]

\* a second passes while connect_with is pending; the timer of line 93-94
\* lets the wait last ConnectTimeout seconds at most
verify_wait_connect(t) ==
    /\ gpc[t] = "connect"
    /\ gclock[t] < ConnectTimeout
    /\ gclock' = [gclock EXCEPT ![t] = @ + 1]
    /\ UNCHANGED <<gpc, gres>>

\* lines 100-101 and 117-164: connect_with completes; Ok(pool) starts the
\* test query (line 104), Err(e) is returned with its message
verify_connected(t, dbOk) ==
    /\ gpc[t] = "connect"
    /\ IF dbOk
       THEN /\ gpc' = [gpc EXCEPT ![t] = "query"]
            /\ UNCHANGED <<gclock, gres>>
       ELSE GuardReturn(t, "connect_error")

\* lines 165-181: the timer fired first; the timeout error is returned
verify_timeout(t) ==
    /\ gpc[t] = "connect"
    /\ gclock[t] = ConnectTimeout
    /\ GuardReturn(t, "timeout")

\* line 104: a second passes while fetch_one(&pool) is pending; the await is
\* outside the timeout of line 93, nothing ends the wait
verify_wait_query(t) ==
    /\ gpc[t] = "query"
    /\ gclock[t] < MaxWait
    /\ gclock' = [gclock EXCEPT ![t] = @ + 1]
    /\ UNCHANGED <<gpc, gres>>

\* lines 104-116: the test query completes; the pool is closed and Ok(()) or
\* the query's error is returned
verify_query_done(t, dbOk) ==
    /\ gpc[t] = "query"
    /\ GuardReturn(t, IF dbOk THEN "ok" ELSE "query_error")

\* ===========================================================================
\* Part IV: the baseline DDL statement by statement
\*          (database_service.rs 48-129)
\* ===========================================================================

\* number of rows the tenants table can get
MaxTenants == 2

VARIABLES
    dFunction,  \* update_updated_at_column() exists
    dTable,     \* the tenants table exists
    dTrigger,   \* the trigger update_tenants_updated_at exists
    dRows,      \* rows of the tenants table
    dpc,        \* task -> next statement of its create_tenants_table run
    dres        \* task -> result of its last run, and what the run found

ddlVars == <<dFunction, dTable, dTrigger, dRows, dpc, dres>>

\* no run has returned
NoRun == [done |-> FALSE, ok |-> TRUE, first |-> FALSE, rows |-> {}]

\* an empty database
DdlInit ==
    /\ dFunction = FALSE
    /\ dTable = FALSE
    /\ dTrigger = FALSE
    /\ dRows = {}
    /\ dpc = [t \in Tasks |-> "idle"]
    /\ dres = [t \in Tasks |-> NoRun]

\* CREATE TABLE IF NOT EXISTS tenants (lines 57-70): an existing table and
\* its rows are kept
RowsAfterCreateTable(exists, rows) == IF exists THEN rows ELSE {}

\* DROP TRIGGER IF EXISTS (lines 102-110): no trigger afterwards, no error
\* when there was none
TriggerAfterDropIfExists_skipped(exists) == exists

TriggerAfterDropIfExists(exists) == FALSE

\* CREATE TRIGGER (lines 113-126) fails when the trigger exists
CreateTriggerOk(exists) == ~exists

\* the run of task t returns
DdlReturn(t, okv) ==
    /\ dpc' = [dpc EXCEPT ![t] = "idle"]
    /\ dres' = [dres EXCEPT ![t] = [@ EXCEPT !.done = TRUE, !.ok = okv]]

\* lines 48-54: a run of create_tenants_table starts (SET timezone changes no
\* schema object)
call_create_tenants_table(t) ==
    /\ dpc[t] = "idle"
    /\ dpc' = [dpc EXCEPT ![t] = "function"]
    /\ dres' = [dres EXCEPT ![t] =
                    [done |-> FALSE, ok |-> TRUE, first |-> ~dTable,
                     rows |-> dRows]]
    /\ UNCHANGED <<dFunction, dTable, dTrigger, dRows>>

\* lines 56 and 78-95: CREATE OR REPLACE FUNCTION update_updated_at_column()
create_updated_at_function(t) ==
    /\ dpc[t] = "function"
    /\ dFunction' = TRUE
    /\ dpc' = [dpc EXCEPT ![t] = "table"]
    /\ UNCHANGED <<dTable, dTrigger, dRows, dres>>

\* lines 57-70: CREATE TABLE IF NOT EXISTS tenants
create_tenants_table(t) ==
    /\ dpc[t] = "table"
    /\ dTable' = TRUE
    /\ dRows' = RowsAfterCreateTable(dTable, dRows)
    /\ dpc' = [dpc EXCEPT ![t] = "drop"]
    /\ UNCHANGED <<dFunction, dTrigger, dres>>

\* lines 102-110: DROP TRIGGER IF EXISTS update_tenants_updated_at
drop_trigger_if_exists(t) ==
    /\ dpc[t] = "drop"
    /\ dTrigger' = TriggerAfterDropIfExists(dTrigger)
    /\ dpc' = [dpc EXCEPT ![t] = "create"]
    /\ UNCHANGED <<dFunction, dTable, dRows, dres>>

\* lines 113-128: CREATE TRIGGER; "already exists" is returned by `?`
create_updated_at_trigger(t) ==
    /\ dpc[t] = "create"
    /\ dTrigger' = TRUE
    /\ DdlReturn(t, CreateTriggerOk(dTrigger))
    /\ UNCHANGED <<dFunction, dTable, dRows>>

\* api/tenants/handler.rs 92-101: a tenant row is inserted and committed
insert_tenant(r) ==
    /\ dTable
    /\ r \notin dRows
    /\ dRows' = dRows \cup {r}
    /\ UNCHANGED <<dFunction, dTable, dTrigger, dpc, dres>>

\* ===========================================================================
\* Part V: the connection options (schema_manager.rs 487-528,
\*         postgres_service.rs 142-166, config/environment.rs)
\* ===========================================================================

\* number of connection options the model follows
MaxOptions == 3

\* the tags EnvironmentVariables::load accepts (environment.rs 119)
EnvTags == {"development", "staging", "production"}

\* ENVIRONMENT values the process may be started with
EnvInputs == EnvTags \cup {"test"}

\* schema: Option<&str>; None is the empty sequence
NoSchema == <<>>

VARIABLES
    environment,    \* config.environment; "unset" before load, "rejected"
                    \*   when load returned an error
    optLog          \* the PgConnectOptions built so far, in order

tlsVars == <<environment, optLog>>

\* the process has not read its environment
TlsInit ==
    /\ environment = "unset"
    /\ optLog = <<>>

\* environment.rs 119-121: any other tag is a format error
AcceptedEnvironment(e) == e \in {"development", "staging", "production"}

\* schema_manager.rs 510-525: Require unless the tag is "development"
SslMode(e) == IF ~(e = "development") THEN "require" ELSE "prefer"

\* postgres_service.rs 157-163: the same choice in the single-pool service
RlsSslMode(e) == IF ~(e = "development") THEN "require" ELSE "prefer"

\* environment.rs 32-159: load reads ENVIRONMENT once (Lazy singleton); a
\* tag outside the accepted ones makes load fail and no service is built
load(e) ==
    /\ environment = "unset"
    /\ environment' = IF AcceptedEnvironment(e) THEN e ELSE "rejected"
    /\ UNCHANGED optLog

\* schema_manager.rs 487-528: create_connect_options(schema) of the registry
\* service, called with None (lines 90, 453) or Some(schema) (line 473)
create_connect_options(sch) ==
    /\ environment \in EnvTags
    /\ Len(optLog) < MaxOptions
    /\ optLog' = Append(optLog,
                     [service |-> "registry",
                      search_path |-> sch,
                      application_name |-> "rust-axum-api",
                      ssl_mode |-> SslMode(environment)])
    /\ UNCHANGED environment

\* postgres_service.rs 142-166: create_connect_options of the single-pool
\* service; no search_path is set
rls_create_connect_options ==
    /\ environment \in EnvTags
    /\ Len(optLog) < MaxOptions
    /\ optLog' = Append(optLog,
                     [service |-> "rls",
                      search_path |-> NoSchema,
                      application_name |-> "rust-axum-api-rls",
                      ssl_mode |-> RlsSslMode(environment)])
    /\ UNCHANGED environment

\* ===========================================================================
\* Part VI: a request through the layer stack (core/server.rs 28-39,
\*          shared/error_handler, shared/response_handler)
\* ===========================================================================

\* env.default_timeout_seconds of the TimeoutLayer, in seconds
TimeoutSeconds == 2

\* env.max_request_body_size of DefaultBodyLimit, in units of body
MaxBody == 2

\* longest handling time and largest body the model sends
MaxTime == 3

MaxSize == 3

\* StatusCode values
StatusOk == 200

PAYLOAD_TOO_LARGE == 413

REQUEST_TIMEOUT == 408

INTERNAL_SERVER_ERROR == 500

\* status codes handlers construct a HandlerResponse with
HandlerStatuses == {200, 201, 404}

\* no HandlerResponse in the response extensions
NoExt == 0

VARIABLES
    hpc,    \* layer the request or its response is at
    hreq,   \* the request: handling time, body size, handler's outcome
    herr,   \* the BoxError a layer returned, "none" if none
    hresp   \* the response: HTTP status, HandlerResponse extension, the
            \*   envelope's code field

httpVars == <<hpc, hreq, herr, hresp>>

NoRequest == [time |-> 0, size |-> 0, fails |-> FALSE, handler |-> 200]

NoResponse == [status |-> 0, ext |-> NoExt, code |-> 0]

\* the server waits for a request
HttpInit ==
    /\ hpc = "idle"
    /\ hreq = NoRequest
    /\ herr = "none"
    /\ hresp = NoResponse

\* response_handler.rs 72-84: HandlerResponse::into_response builds the
\* response from Json(..) (status 200 OK) and stores the HandlerResponse in
\* the extensions; status_code is not copied to the response's status
into_response(status_code) ==
    [status |-> StatusOk, ext |-> status_code, code |-> 0]

\* error_handler.rs 21-27: the status the error handler decides on
GlobalErrorStatus(err) ==
    IF err = "LengthLimitError" THEN PAYLOAD_TOO_LARGE
    ELSE IF err = "Elapsed" THEN REQUEST_TIMEOUT
    ELSE INTERNAL_SERVER_ERROR

\* the error the layers below HandleErrorLayer return for a request: the
\* body limit (server.rs 37), the timeout (server.rs 36), any other error
LayerError(r) ==
    IF r.size > MaxBody THEN "LengthLimitError"
    ELSE IF r.time > TimeoutSeconds THEN "Elapsed"
    ELSE IF r.fails THEN "Other"
    ELSE "none"

\* a request arrives
receive_request(time, size, fails, handler) ==
    /\ hpc \in {"idle", "done"}
    /\ hpc' = "service"
    /\ hreq' = [time |-> time, size |-> size, fails |-> fails,
                handler |-> handler]
    /\ herr' = "none"
    /\ hresp' = NoResponse

\* server.rs 36-37: the inner service runs under the timeout and the body
\* limit; it returns the handler's HandlerResponse or a layer's error
inner_service ==
    /\ hpc = "service"
    /\ herr' = LayerError(hreq)
    /\ IF LayerError(hreq) = "none"
       THEN /\ hresp' = into_response(hreq.handler)
            /\ hpc' = "wrap"
       ELSE /\ hresp' = hresp
            /\ hpc' = "handle_error"
    /\ UNCHANGED hreq

\* error_handler.rs 19-30: handle_global_error returns
\* HandlerResponse::new(status), which axum turns into the response
handle_global_error ==
    /\ hpc = "handle_error"
    /\ hresp' = into_response(GlobalErrorStatus(herr))
    /\ hpc' = "wrap"
    /\ UNCHANGED <<hreq, herr>>

\* response_handler.rs 130-159: the envelope's code is parts.status, and the
\* final response keeps the parts of the inner response
response_wrapper ==
    /\ hpc = "wrap"
    /\ hresp' = [hresp EXCEPT !.code = hresp.status]
    /\ hpc' = "done"
    /\ UNCHANGED <<hreq, herr>>

\* ===========================================================================
\* Part VII: the OnceCell of the single-pool service step by step
\*           (postgres_service.rs 36-79)
\* ===========================================================================

\* cap on the pools create_pool constructs for the cell in one run
MaxBuilt == 2

VARIABLES
    onceValue,  \* OnceCell<PgPool>: the pool stored, NoPool while empty
    oncePermit, \* task running the cell's initialiser, 0 if none
    nBuilt,     \* pools constructed by create_pool so far
    ipc,        \* task -> position inside initialize
    ires        \* task -> what its last completed initialize / get_pool
                \*   returned

onceVars == <<onceValue, oncePermit, nBuilt, ipc, ires>>

NoIRes == [op |-> "none", ok |-> TRUE, pool |-> NoPool, at |-> "none"]

\* DatabaseService::new (36-43): OnceCell::new()
OnceInit ==
    /\ onceValue = NoPool
    /\ oncePermit = 0
    /\ nBuilt = 0
    /\ ipc = [t \in Tasks |-> "idle"]
    /\ ires = [t \in Tasks |-> NoIRes]

\* get_or_try_init (line 50): one caller at a time runs the initialiser
CanInit_unguarded(t) == TRUE

CanInit(t) == oncePermit = 0

\* get_pool (77-79): self.pool.get().ok_or_else(..)
GetPoolResult(v) ==
    [op |-> "get_pool", ok |-> v # NoPool, pool |-> v, at |-> "none"]

\* initialize returns
IReturn(t, okv, where) ==
    /\ ipc' = [ipc EXCEPT ![t] = "idle"]
    /\ ires' = [ires EXCEPT ![t] =
                    [op |-> "initialize", ok |-> okv, pool |-> NoPool,
                     at |-> where]]

\* line 46: a task calls initialize()
call_rls_initialize(t) ==
    /\ ipc[t] = "idle"
    /\ ipc' = [ipc EXCEPT ![t] = "init"]
    /\ UNCHANGED <<onceValue, oncePermit, nBuilt, ires>>

\* line 50: get_or_try_init finds the cell set and returns its value; no
\* pool is constructed
get_or_try_init_set(t) ==
    /\ ipc[t] = "init"
    /\ onceValue # NoPool
    /\ ipc' = [ipc EXCEPT ![t] = "schema"]
    /\ UNCHANGED <<onceValue, oncePermit, nBuilt, ires>>

\* line 50: the cell is empty and no initialiser runs: this caller's
\* closure starts create_pool
get_or_try_init_run(t) ==
    /\ ipc[t] = "init"
    /\ onceValue = NoPool
    /\ CanInit(t)
    /\ oncePermit' = t
    /\ ipc' = [ipc EXCEPT ![t] = "create"]
    /\ UNCHANGED <<onceValue, nBuilt, ires>>

\* lines 51 and 127-139: create_pool completes; Ok(pool) is stored in the
\* cell, Err is returned by `?` with the cell still empty; either way the
\* next waiting caller may run
rls_create_pool(t, dbOk) ==
    /\ ipc[t] = "create"
    /\ oncePermit' = IF oncePermit = t THEN 0 ELSE oncePermit
    /\ IF dbOk
       THEN /\ nBuilt < MaxBuilt
            /\ nBuilt' = nBuilt + 1
            /\ onceValue' = nBuilt + 1
            /\ ipc' = [ipc EXCEPT ![t] = "schema"]
            /\ UNCHANGED ires
       ELSE /\ IReturn(t, FALSE, "create_pool")
            /\ UNCHANGED <<onceValue, nBuilt>>

\* lines 55-61: get_pool()? and initialize_schema(pool)
rls_initialize_schema(t, dbOk) ==
    /\ ipc[t] = "schema"
    /\ IReturn(t, dbOk /\ onceValue # NoPool,
               IF onceValue = NoPool THEN "get_pool" ELSE "schema")
    /\ UNCHANGED <<onceValue, oncePermit, nBuilt>>

\* lines 77-79: a task calls get_pool()
rls_get_pool(t) ==
    /\ ipc[t] = "idle"
    /\ ires' = [ires EXCEPT ![t] = GetPoolResult(onceValue)]
    /\ UNCHANGED <<onceValue, oncePermit, nBuilt, ipc>>

\* ===========================================================================
\* Part VIII: pool keys of callers that pass an app (schema_manager.rs
\*            338-376, 472-508), calls made one after another
\* ===========================================================================

\* cap on the pools constructed in one run
MaxKeyPools == 3

\* schema names and app names callers pass; "a_b" is the three tokens a _ b
KeySchemas == {<<"a">>, <<"a", "_", "b">>, <<"b">>}

KeyApps == {NoApp, <<"b">>}

\* the key strings these arguments format to
KeyStrings == {PoolKey(sch, a) : sch \in KeySchemas, a \in KeyApps}

VARIABLES
    kpools,     \* data_sources: key string -> pool, NoKeyPool if absent
    kBuilt,     \* pools constructed so far
    kres        \* the last get_pool call: its arguments and the pool returned

keyVars == <<kpools, kBuilt, kres>>

\* an absent entry; a pool is its identity and the search_path of its
\* connect options
NoKeyPool == [id |-> NoPool, search_path |-> NoSchema]

NoKeyRes == [schema |-> NoSchema, app |-> NoApp, ok |-> FALSE,
             pool |-> NoKeyPool, path |-> "none"]

\* an empty registry
KeyInit ==
    /\ kpools = [k \in KeyStrings |-> NoKeyPool]
    /\ kBuilt = 0
    /\ kres = NoKeyRes

\* lines 472-484 and 502-507: create_pool(schema) connects with
\* search_path = schema
NewKeyPool(n, sch) == [id |-> n, search_path |-> sch]

\* lines 338-376 as one step: the key is built from schema_name and app; a
\* pool stored under the key is returned as it is, otherwise a pool for
\* schema_name is built, stored under the key and returned
key_get_pool(sch, a) ==
    LET k == PoolKey(sch, a)
    IN  IF kpools[k] # NoKeyPool
        THEN /\ kres' = [schema |-> sch, app |-> a, ok |-> TRUE,
                         pool |-> kpools[k], path |-> "fast"]
             /\ UNCHANGED <<kpools, kBuilt>>
        ELSE /\ kBuilt < MaxKeyPools
             /\ kBuilt' = kBuilt + 1
             /\ kpools' = [kpools EXCEPT ![k] = NewKeyPool(kBuilt + 1, sch)]
             /\ kres' = [schema |-> sch, app |-> a, ok |-> TRUE,
                         pool |-> NewKeyPool(kBuilt + 1, sch),
                         path |-> "slow"]

\* lines 379-392 as one step: close_pool removes the entry of the key
key_close_pool(sch, a) ==
    /\ kpools[PoolKey(sch, a)] # NoKeyPool
    /\ kpools' = [kpools EXCEPT ![PoolKey(sch, a)] = NoKeyPool]
    /\ kres' = NoKeyRes
    /\ UNCHANGED kBuilt

\* ===========================================================================
\* Part IX: the registry lock and leased connections (schema_manager.rs
\*          344-403): one key, tasks that keep a connection of its pool
\* ===========================================================================

\* number of close_pool / close_all_pools calls in one run
MaxCloses == 1

\* every get_pool that misses builds a pool: one per task for the empty
\* registry and for each close
LeasePools == 1..(NumTasks * (MaxCloses + 1))

VARIABLES
    lentry,     \* the pool stored under the key, NoPool if absent
    lguard,     \* task holding the RwLock write guard, 0 if none
    lclosed,    \* pools close() has been called on
    lbuilt,     \* pools constructed so far
    lcloses,    \* close calls made so far
    lhandle,    \* task -> the pool handle its last get_pool returned
    llease,     \* task -> pool whose connection it has checked out
    lclosing,   \* task -> pool whose close() it awaits under the guard
    lpc         \* task -> position in the call it runs

leaseVars == <<lentry, lguard, lclosed, lbuilt, lcloses, lhandle, llease,
               lclosing, lpc>>

\* an empty registry, no connection checked out
LeaseInit ==
    /\ lentry = NoPool
    /\ lguard = 0
    /\ lclosed = {}
    /\ lbuilt = 0
    /\ lcloses = 0
    /\ lhandle = [t \in Tasks |-> NoPool]
    /\ llease = [t \in Tasks |-> NoPool]
    /\ lclosing = [t \in Tasks |-> NoPool]
    /\ lpc = [t \in Tasks |-> "idle"]

\* pool.close().await (lines 388, 399) completes when every connection of
\* the pool has been returned
PoolCloseReturns(p) == \A t \in Tasks : llease[t] # p

\* a task calls get_pool for the key
lease_call_get_pool(t) ==
    /\ lpc[t] = "idle"
    /\ lpc' = [lpc EXCEPT ![t] = "gp_read"]
    /\ UNCHANGED <<lentry, lguard, lclosed, lbuilt, lcloses, lhandle, llease,
                   lclosing>>

\* lines 344-355: data_sources.read().await is granted while no writer
\* holds the lock; an open pool is returned, otherwise the slow path starts
lease_get_pool_read(t) ==
    /\ lpc[t] = "gp_read"
    /\ lguard = 0
    /\ IF lentry # NoPool /\ lentry \notin lclosed
       THEN /\ lhandle' = [lhandle EXCEPT ![t] = lentry]
            /\ lpc' = [lpc EXCEPT ![t] = "idle"]
       ELSE /\ lpc' = [lpc EXCEPT ![t] = "gp_write"]
            /\ UNCHANGED lhandle
    /\ UNCHANGED <<lentry, lguard, lclosed, lbuilt, lcloses, llease, lclosing>>

\* lines 359-375: the pool is built, data_sources.write().await is granted
\* while no writer holds the lock, the pool is stored and returned
lease_get_pool_insert(t) ==
    /\ lpc[t] = "gp_write"
    /\ lguard = 0
    /\ lbuilt + 1 \in LeasePools
    /\ lbuilt' = lbuilt + 1
    /\ lentry' = lbuilt + 1
    /\ lhandle' = [lhandle EXCEPT ![t] = lbuilt + 1]
    /\ lpc' = [lpc EXCEPT ![t] = "idle"]
    /\ UNCHANGED <<lguard, lclosed, lcloses, llease, lclosing>>

\* a task checks a connection out of the pool it holds a handle of (a
\* transaction or a streamed query it keeps open)
acquire_connection(t) ==
    /\ lpc[t] = "idle"
    /\ lhandle[t] # NoPool
    /\ lhandle[t] \notin lclosed
    /\ llease[t] = NoPool
    /\ llease' = [llease EXCEPT ![t] = lhandle[t]]
    /\ UNCHANGED <<lentry, lguard, lclosed, lbuilt, lcloses, lhandle,
                   lclosing, lpc>>

\* the task's work on the connection ends and the connection returns to its
\* pool; a task suspended inside a registry call does not get there
release_connection(t) ==
    /\ lpc[t] = "idle"
    /\ llease[t] # NoPool
    /\ llease' = [llease EXCEPT ![t] = NoPool]
    /\ UNCHANGED <<lentry, lguard, lclosed, lbuilt, lcloses, lhandle,
                   lclosing, lpc>>

\* a task that has no connection checked out calls close_pool for the
\* key, or close_all_pools
lease_call_close(t) ==
    /\ lpc[t] = "idle"
    /\ llease[t] = NoPool
    /\ lcloses < MaxCloses
    /\ lcloses' = lcloses + 1
    /\ lpc' = [lpc EXCEPT ![t] = "cp_write"]
    /\ UNCHANGED <<lentry, lguard, lclosed, lbuilt, lhandle, llease,
                   lclosing>>

\* lines 385-388 and 396-399: the write guard is taken, the entry removed
\* and close() called on its pool; the guard stays held while the close is
\* awaited; with no entry Ok(()) is returned at once
lease_close_remove(t) ==
    /\ lpc[t] = "cp_write"
    /\ lguard = 0
    /\ IF lentry = NoPool
       THEN /\ lpc' = [lpc EXCEPT ![t] = "idle"]
            /\ UNCHANGED <<lentry, lguard, lclosed, lclosing>>
       ELSE /\ lguard' = t
            /\ lclosing' = [lclosing EXCEPT ![t] = lentry]
            /\ lclosed' = lclosed \cup {lentry}
            /\ lentry' = NoPool
            /\ lpc' = [lpc EXCEPT ![t] = "cp_close"]
    /\ UNCHANGED <<lbuilt, lcloses, lhandle, llease>>

\* lines 388-391 and 399-402: pool.close().await completes, the guard is
\* dropped and Ok(()) returned
lease_close_done(t) ==
    /\ lpc[t] = "cp_close"
    /\ PoolCloseReturns(lclosing[t])
    /\ lguard' = 0
    /\ lclosing' = [lclosing EXCEPT ![t] = NoPool]
    /\ lpc' = [lpc EXCEPT ![t] = "idle"]
    /\ UNCHANGED <<lentry, lclosed, lbuilt, lcloses, lhandle, llease>>

\* ===========================================================================
\* Part X: tenant_context_middleware (api/middleware/tenant.rs 21-92,
\*         redis_manager.rs 42-72)
\* ===========================================================================

UNAUTHORIZED == 401

BAD_REQUEST == 400

\* tenant UUIDs
Uuids == {"A", "B"}

\* x-tenant-id header values: none, bytes that are no text, text that is no
\* UUID, and a UUID written in hyphenated or in simple form
NoHeader == <<>>

Headers == {NoHeader, <<"not_text">>, <<"text", "garbage">>}
               \cup {<<"text", f, u>> : f \in {"hyphenated", "simple"},
                                        u \in Uuids}

\* lines 29-31: headers.get(..).and_then(|v| v.to_str().ok())
HeaderText(h) == IF h # NoHeader /\ h[1] = "text" THEN Tail(h) ELSE <<>>

\* line 39: Uuid::parse_str; "none" when the text is no UUID
ParseUuid(txt) == IF Len(txt) = 2 /\ txt[2] \in Uuids THEN txt[2] ELSE "none"

\* line 47: tenant_exists(..).await.unwrap_or(false); an Err of Redis counts
\* as "not cached"
IsCached_failopen(redisOk, hit) == ~redisOk \/ hit

IsCached(redisOk, hit) == redisOk /\ hit

VARIABLES
    mcache,     \* Redis: the UUIDs with a key tenant:{uuid}
    mtable,     \* the ids in the tenants table
    mpc,        \* step the request is at
    mheader,    \* the request's x-tenant-id header
    mtenant,    \* tenant_id parsed from the header, "none" before
    mredisOk,   \* the request's tenant_exists call returned Ok
    mres        \* outcome of the last request

tenantVars == <<mcache, mtable, mpc, mheader, mtenant, mredisOk, mres>>

NoMRes == [status |-> 0, invoked |-> FALSE, ctx |-> "none", error |-> "none"]

\* no tenant registered, nothing cached
TenantInit ==
    /\ mcache = {}
    /\ mtable = {}
    /\ mpc = "idle"
    /\ mheader = NoHeader
    /\ mtenant = "none"
    /\ mredisOk = TRUE
    /\ mres = NoMRes

\* Err(HandlerResponse::new(status)..): the request is answered without
\* next.run being called
Reject(status, error) ==
    /\ mpc' = "idle"
    /\ mres' = [status |-> status, invoked |-> FALSE, ctx |-> "none",
                error |-> error]

\* lines 28-43: the header is read and parsed; a missing or non-text header
\* gives 401, text that is no UUID gives 400
tenant_context_middleware(h) ==
    /\ mpc = "idle"
    /\ mheader' = h
    /\ mredisOk' = TRUE
    /\ IF HeaderText(h) = <<>>
       THEN /\ Reject(UNAUTHORIZED, "missing_tenant_id")
            /\ mtenant' = "none"
       ELSE IF ParseUuid(HeaderText(h)) = "none"
       THEN /\ Reject(BAD_REQUEST, "invalid_tenant_id")
            /\ mtenant' = "none"
       ELSE /\ mtenant' = ParseUuid(HeaderText(h))
            /\ mpc' = "redis"
            /\ mres' = NoMRes
    /\ UNCHANGED <<mcache, mtable>>

\* lines 47-49 and redis_manager.rs 43-54: EXISTS tenant:{id}
redis_tenant_exists(redisOk) ==
    /\ mpc = "redis"
    /\ mredisOk' = redisOk
    /\ mpc' = IF IsCached(redisOk, mtenant \in mcache) THEN "next" ELSE "db"
    /\ UNCHANGED <<mcache, mtable, mheader, mtenant, mres>>

\* lines 51-73: get_pool and SELECT EXISTS(.. FROM tenants WHERE id = $1);
\* a pool or query error gives 500, an unknown tenant 401
db_tenant_exists(poolOk, queryOk) ==
    /\ mpc = "db"
    /\ IF ~poolOk \/ ~queryOk
       THEN Reject(INTERNAL_SERVER_ERROR, "internal")
       ELSE IF mtenant \notin mtable
       THEN Reject(UNAUTHORIZED, "tenant_not_found")
       ELSE /\ mpc' = "set"
            /\ UNCHANGED mres
    /\ UNCHANGED <<mcache, mtable, mheader, mtenant, mredisOk>>

\* lines 76-79 and redis_manager.rs 57-72: SET tenant:{id}; a failure is
\* only logged
redis_set_tenant(redisOk) ==
    /\ mpc = "set"
    /\ mcache' = IF redisOk THEN mcache \cup {mtenant} ELSE mcache
    /\ mpc' = "next"
    /\ UNCHANGED <<mtable, mheader, mtenant, mredisOk, mres>>

\* lines 88-91: TenantContext { tenant_id } is attached and next.run called
tenant_next_run ==
    /\ mpc = "next"
    /\ mpc' = "idle"
    /\ mres' = [status |-> StatusOk, invoked |-> TRUE, ctx |-> mtenant,
                error |-> "none"]
    /\ UNCHANGED <<mcache, mtable, mheader, mtenant, mredisOk>>

\* api/tenants/handler.rs 92-107: a tenant row is committed
register_tenant(u) ==
    /\ u \notin mtable
    /\ mtable' = mtable \cup {u}
    /\ UNCHANGED <<mcache, mpc, mheader, mtenant, mredisOk, mres>>

\* redis_manager.rs 65-66: EX 86400, a cached key expires
tenant_key_expires(u) ==
    /\ u \in mcache
    /\ mcache' = mcache \ {u}
    /\ UNCHANGED <<mtable, mpc, mheader, mtenant, mredisOk, mres>>

\* ===========================================================================
\* Part XI: create_tenant_internal (api/tenants/handler.rs 76-134)
\* ===========================================================================

\* number of create_tenant calls; each draws a fresh id (Uuid::new_v4)
MaxNewTenants == 3

NewTenantIds == 1..MaxNewTenants

VARIABLES
    ctenants,   \* ids with a committed row in the master tenants table
    ctxrow,     \* id inserted in the open transaction, 0 when none
    cschemas,   \* ids whose schema tenant_{id} exists
    cinfotab,   \* ids whose schema has a tenant_info table
    cinfo,      \* ids whose tenant_info table holds the tenant's name
    cnext,      \* ids drawn so far
    cid,        \* tenant_id of the call in progress
    cpc,        \* step the call is at
    cres        \* outcome of the last call

createVars == <<ctenants, ctxrow, cschemas, cinfotab, cinfo, cnext, cid, cpc,
                cres>>

NoCRes == [ok |-> TRUE, id |-> 0, at |-> "none"]

CreateInit ==
    /\ ctenants = {}
    /\ ctxrow = 0
    /\ cschemas = {}
    /\ cinfotab = {}
    /\ cinfo = {}
    /\ cnext = 0
    /\ cid = 0
    /\ cpc = "idle"
    /\ cres = NoCRes

\* a `?` returns the error; a transaction still open is dropped, which
\* rolls it back
CFail(at) ==
    /\ cpc' = "idle"
    /\ ctxrow' = 0
    /\ cres' = [ok |-> FALSE, id |-> cid, at |-> at]

\* lines 82-89: the id is drawn, the master pool fetched and the
\* transaction begun
create_tenant_internal(dbOk) ==
    /\ cpc = "idle"
    /\ cnext < MaxNewTenants
    /\ cnext' = cnext + 1
    /\ cid' = cnext + 1
    /\ IF dbOk
       THEN /\ cpc' = "insert"
            /\ cres' = NoCRes
            /\ UNCHANGED ctxrow
       ELSE /\ cpc' = "idle"
            /\ cres' = [ok |-> FALSE, id |-> cnext + 1, at |-> "begin"]
            /\ UNCHANGED ctxrow
    /\ UNCHANGED <<ctenants, cschemas, cinfotab, cinfo>>

\* lines 92-101: INSERT INTO tenants inside the transaction
insert_tenants_row(dbOk) ==
    /\ cpc = "insert"
    /\ IF dbOk
       THEN /\ ctxrow' = cid
            /\ cpc' = "commit"
            /\ UNCHANGED cres
       ELSE CFail("insert")
    /\ UNCHANGED <<ctenants, cschemas, cinfotab, cinfo, cnext, cid>>

\* line 107: tx.commit(); the row is in the tenants table from here on
tx_commit(dbOk) ==
    /\ cpc = "commit"
    /\ IF dbOk
       THEN /\ ctenants' = ctenants \cup {ctxrow}
            /\ ctxrow' = 0
            /\ cpc' = "get_pool"
            /\ UNCHANGED cres
       ELSE /\ CFail("commit")
            /\ UNCHANGED ctenants
    /\ UNCHANGED <<cschemas, cinfotab, cinfo, cnext, cid>>

\* line 110: get_pool(&schema_name, None) creates the schema and then the
\* pool (schema_manager.rs 338-376); either can fail
create_get_pool(schemaOk, poolOk) ==
    /\ cpc = "get_pool"
    /\ cschemas' = IF schemaOk THEN cschemas \cup {cid} ELSE cschemas
    /\ IF schemaOk /\ poolOk
       THEN /\ cpc' = "info_table"
            /\ UNCHANGED <<ctxrow, cres>>
       ELSE CFail("get_pool")
    /\ UNCHANGED <<ctenants, cinfotab, cinfo, cnext, cid>>

\* line 113: create_tenant_info_table(&tenant_pool)
create_tenant_info_table(dbOk) ==
    /\ cpc = "info_table"
    /\ IF dbOk
       THEN /\ cinfotab' = cinfotab \cup {cid}
            /\ cpc' = "info_insert"
            /\ UNCHANGED <<ctxrow, cres>>
       ELSE /\ CFail("info_table")
            /\ UNCHANGED cinfotab
    /\ UNCHANGED <<ctenants, cschemas, cinfo, cnext, cid>>

\* lines 116-133: INSERT INTO tenant_info, then Ok(response)
insert_tenant_info(dbOk) ==
    /\ cpc = "info_insert"
    /\ IF dbOk
       THEN /\ cinfo' = cinfo \cup {cid}
            /\ cpc' = "idle"
            /\ cres' = [ok |-> TRUE, id |-> cid, at |-> "done"]
            /\ UNCHANGED ctxrow
       ELSE /\ CFail("info_insert")
            /\ UNCHANGED cinfo
    /\ UNCHANGED <<ctenants, cschemas, cinfotab, cnext, cid>>

\* the variables of Parts I to IV
coreVars == <<regVars, txVars, guardVars, ddlVars>>

\* the variables of Parts V and later
lateVars == <<tlsVars, httpVars, onceVars, keyVars, leaseVars,
              tenantVars, createVars>>

\* all variables
vars == <<coreVars, lateVars>>

\* the services as constructed, an empty database
Init ==
    /\ RegInit /\ TxInit /\ GuardInit /\ DdlInit
    /\ TlsInit /\ HttpInit /\ OnceInit /\ KeyInit /\ LeaseInit
    /\ TenantInit
    /\ CreateInit

\* ---------------------------------------------------------------------------
\* Specifications
\* ---------------------------------------------------------------------------

\* the registry used by concurrent tasks
Next ==
    \/ \E t \in Tasks, s \in Schemas, a \in Apps : call_get_pool(t, s, a)
          /\ UNCHANGED <<txVars, guardVars, ddlVars, lateVars>>
    \/ \E t \in Tasks : get_pool_lookup(t)
          /\ UNCHANGED <<txVars, guardVars, ddlVars, lateVars>>
    \/ \E t \in Tasks, dbOk \in BOOLEAN : ensure_schema_exists(t, dbOk)
          /\ UNCHANGED <<txVars, guardVars, ddlVars, lateVars>>
    \/ \E t \in Tasks, dbOk \in BOOLEAN : create_pool(t, dbOk)
          /\ UNCHANGED <<txVars, guardVars, ddlVars, lateVars>>
    \/ \E t \in Tasks, dbOk \in BOOLEAN : get_pool_update_function(t, dbOk)
          /\ UNCHANGED <<txVars, guardVars, ddlVars, lateVars>>
    \/ \E t \in Tasks : get_pool_insert(t)
          /\ UNCHANGED <<txVars, guardVars, ddlVars, lateVars>>
    \/ \E t \in Tasks : get_pool_ok(t)
          /\ UNCHANGED <<txVars, guardVars, ddlVars, lateVars>>
    \/ \E t \in Tasks, s \in Schemas, a \in Apps : call_close_pool(t, s, a)
          /\ UNCHANGED <<txVars, guardVars, ddlVars, lateVars>>
    \/ \E t \in Tasks : close_pool_remove(t)
          /\ UNCHANGED <<txVars, guardVars, ddlVars, lateVars>>
    \/ \E t \in Tasks : close_pool_done(t)
          /\ UNCHANGED <<txVars, guardVars, ddlVars, lateVars>>
    \/ \E t \in Tasks : call_close_all_pools(t)
          /\ UNCHANGED <<txVars, guardVars, ddlVars, lateVars>>
    \/ \E t \in Tasks : call_shutdown(t)
          /\ UNCHANGED <<txVars, guardVars, ddlVars, lateVars>>
    \/ \E t \in Tasks : close_all_pools_lock(t)
          /\ UNCHANGED <<txVars, guardVars, ddlVars, lateVars>>
    \/ \E t \in Tasks, k \in AllKeys : close_all_pools_step(t, k)
          /\ UNCHANGED <<txVars, guardVars, ddlVars, lateVars>>
    \/ \E t \in Tasks : close_all_pools_done(t)
          /\ UNCHANGED <<txVars, guardVars, ddlVars, lateVars>>
    \/ \E t \in Tasks : call_initialize(t)
          /\ UNCHANGED <<txVars, guardVars, ddlVars, lateVars>>
    \/ \E t \in Tasks, dbOk \in BOOLEAN : verify_database_connectivity(t, dbOk)
          /\ UNCHANGED <<txVars, guardVars, ddlVars, lateVars>>
    \/ \E t \in Tasks, dbOk \in BOOLEAN : initialize_database_timezone(t, dbOk)
          /\ UNCHANGED <<txVars, guardVars, ddlVars, lateVars>>
    \/ \E t \in Tasks, dbOk \in BOOLEAN : initialize_database_function(t, dbOk)
          /\ UNCHANGED <<txVars, guardVars, ddlVars, lateVars>>
    \/ \E t \in Tasks, dbOk \in BOOLEAN : initialize_database_tenants(t, dbOk)
          /\ UNCHANGED <<txVars, guardVars, ddlVars, lateVars>>

Spec == Init /\ [][Next]_vars

\* the single-pool service used by concurrent tasks
TxNext ==
    \/ \E t \in Tasks, dbOk \in BOOLEAN : rls_initialize(t, dbOk)
          /\ UNCHANGED <<regVars, guardVars, ddlVars, lateVars>>
    \/ \E t \in Tasks, dbOk \in BOOLEAN : initialize_schema(t, dbOk)
          /\ UNCHANGED <<regVars, guardVars, ddlVars, lateVars>>
    \/ \E t \in Tasks : rls_shutdown(t)
          /\ UNCHANGED <<regVars, guardVars, ddlVars, lateVars>>
    \/ \E t \in Tasks, tenant_id \in TenantIds : call_with_tenant(t, tenant_id)
          /\ UNCHANGED <<regVars, guardVars, ddlVars, lateVars>>
    \/ \E t \in Tasks, c \in Conns : with_tenant_begin(t, c)
          /\ UNCHANGED <<regVars, guardVars, ddlVars, lateVars>>
    \/ \E t \in Tasks : with_tenant_begin_failed(t)
          /\ UNCHANGED <<regVars, guardVars, ddlVars, lateVars>>
    \/ \E t \in Tasks, dbOk \in BOOLEAN : with_tenant_marker(t, dbOk)
          /\ UNCHANGED <<regVars, guardVars, ddlVars, lateVars>>
    \/ \E t \in Tasks : work_insert(t)
          /\ UNCHANGED <<regVars, guardVars, ddlVars, lateVars>>
    \/ \E t \in Tasks : work_select(t)
          /\ UNCHANGED <<regVars, guardVars, ddlVars, lateVars>>
    \/ \E t \in Tasks, v \in WorkVals : work_return(t, TRUE, v)
          /\ UNCHANGED <<regVars, guardVars, ddlVars, lateVars>>
    \/ \E t \in Tasks, e \in WorkErrs : work_return(t, FALSE, e)
          /\ UNCHANGED <<regVars, guardVars, ddlVars, lateVars>>
    \/ \E t \in Tasks, dbOk \in BOOLEAN : with_tenant_commit(t, dbOk)
          /\ UNCHANGED <<regVars, guardVars, ddlVars, lateVars>>
    \/ \E t \in Tasks, dbOk \in BOOLEAN : with_tenant_rollback(t, dbOk)
          /\ UNCHANGED <<regVars, guardVars, ddlVars, lateVars>>

SpecTenant == Init /\ [][TxNext]_vars


\* the registry used by one caller at a time: a call starts only when no
\* other call is in flight
AllIdle == \A t \in Tasks : pc[t] = "idle"

SeqNext ==
    \/ \E t \in Tasks, s \in Schemas, a \in Apps :
          AllIdle /\ call_get_pool(t, s, a) /\ UNCHANGED <<txVars, guardVars, ddlVars, lateVars>>
    \/ \E t \in Tasks : get_pool_lookup(t)
          /\ UNCHANGED <<txVars, guardVars, ddlVars, lateVars>>
    \/ \E t \in Tasks, dbOk \in BOOLEAN : ensure_schema_exists(t, dbOk)
          /\ UNCHANGED <<txVars, guardVars, ddlVars, lateVars>>
    \/ \E t \in Tasks, dbOk \in BOOLEAN : create_pool(t, dbOk)
          /\ UNCHANGED <<txVars, guardVars, ddlVars, lateVars>>
    \/ \E t \in Tasks, dbOk \in BOOLEAN : get_pool_update_function(t, dbOk)
          /\ UNCHANGED <<txVars, guardVars, ddlVars, lateVars>>
    \/ \E t \in Tasks : get_pool_insert(t)
          /\ UNCHANGED <<txVars, guardVars, ddlVars, lateVars>>
    \/ \E t \in Tasks : get_pool_ok(t)
          /\ UNCHANGED <<txVars, guardVars, ddlVars, lateVars>>
    \/ \E t \in Tasks, s \in Schemas, a \in Apps :
          AllIdle /\ call_close_pool(t, s, a) /\ UNCHANGED <<txVars, guardVars, ddlVars, lateVars>>
    \/ \E t \in Tasks : close_pool_remove(t)
          /\ UNCHANGED <<txVars, guardVars, ddlVars, lateVars>>
    \/ \E t \in Tasks : close_pool_done(t)
          /\ UNCHANGED <<txVars, guardVars, ddlVars, lateVars>>
    \/ \E t \in Tasks : AllIdle /\ call_close_all_pools(t)
          /\ UNCHANGED <<txVars, guardVars, ddlVars, lateVars>>
    \/ \E t \in Tasks : AllIdle /\ call_shutdown(t)
          /\ UNCHANGED <<txVars, guardVars, ddlVars, lateVars>>
    \/ \E t \in Tasks : close_all_pools_lock(t)
          /\ UNCHANGED <<txVars, guardVars, ddlVars, lateVars>>
    \/ \E t \in Tasks, k \in AllKeys : close_all_pools_step(t, k)
          /\ UNCHANGED <<txVars, guardVars, ddlVars, lateVars>>
    \/ \E t \in Tasks : close_all_pools_done(t)
          /\ UNCHANGED <<txVars, guardVars, ddlVars, lateVars>>
    \/ \E t \in Tasks : AllIdle /\ call_initialize(t)
          /\ UNCHANGED <<txVars, guardVars, ddlVars, lateVars>>
    \/ \E t \in Tasks, dbOk \in BOOLEAN : verify_database_connectivity(t, dbOk)
          /\ UNCHANGED <<txVars, guardVars, ddlVars, lateVars>>
    \/ \E t \in Tasks, dbOk \in BOOLEAN : initialize_database_timezone(t, dbOk)
          /\ UNCHANGED <<txVars, guardVars, ddlVars, lateVars>>
    \/ \E t \in Tasks, dbOk \in BOOLEAN : initialize_database_function(t, dbOk)
          /\ UNCHANGED <<txVars, guardVars, ddlVars, lateVars>>
    \/ \E t \in Tasks, dbOk \in BOOLEAN : initialize_database_tenants(t, dbOk)
          /\ UNCHANGED <<txVars, guardVars, ddlVars, lateVars>>

SpecSeq == Init /\ [][SeqNext]_vars

\* get_pool and shutdown only, for the progress of shutdown
ShutdownNext ==
    \/ \E t \in Tasks, s \in Schemas, a \in Apps : call_get_pool(t, s, a)
          /\ UNCHANGED <<txVars, guardVars, ddlVars, lateVars>>
    \/ \E t \in Tasks : get_pool_lookup(t)
          /\ UNCHANGED <<txVars, guardVars, ddlVars, lateVars>>
    \/ \E t \in Tasks, dbOk \in BOOLEAN : ensure_schema_exists(t, dbOk)
          /\ UNCHANGED <<txVars, guardVars, ddlVars, lateVars>>
    \/ \E t \in Tasks, dbOk \in BOOLEAN : create_pool(t, dbOk)
          /\ UNCHANGED <<txVars, guardVars, ddlVars, lateVars>>
    \/ \E t \in Tasks, dbOk \in BOOLEAN : get_pool_update_function(t, dbOk)
          /\ UNCHANGED <<txVars, guardVars, ddlVars, lateVars>>
    \/ \E t \in Tasks : get_pool_insert(t)
          /\ UNCHANGED <<txVars, guardVars, ddlVars, lateVars>>
    \/ \E t \in Tasks : get_pool_ok(t)
          /\ UNCHANGED <<txVars, guardVars, ddlVars, lateVars>>
    \/ \E t \in Tasks : call_shutdown(t)
          /\ UNCHANGED <<txVars, guardVars, ddlVars, lateVars>>
    \/ \E t \in Tasks : close_all_pools_lock(t)
          /\ UNCHANGED <<txVars, guardVars, ddlVars, lateVars>>
    \/ \E t \in Tasks, k \in AllKeys : close_all_pools_step(t, k)
          /\ UNCHANGED <<txVars, guardVars, ddlVars, lateVars>>
    \/ \E t \in Tasks : close_all_pools_done(t)
          /\ UNCHANGED <<txVars, guardVars, ddlVars, lateVars>>

\* the steps of shutdown by task t once it has been called
ShutdownStep(t) ==
    /\ \/ close_all_pools_lock(t)
       \/ \E k \in AllKeys : close_all_pools_step(t, k)
       \/ close_all_pools_done(t)
    /\ UNCHANGED <<txVars, guardVars, ddlVars, lateVars>>

\* the runtime keeps polling a task that can run; the RwLock serves its
\* waiters in turn, so a waiter that can take the guard again and again does
\* take it; pool.close() returns once the pool's connections are back
SpecShutdown ==
    /\ Init
    /\ [][ShutdownNext]_vars
    /\ \A t \in Tasks : SF_vars(ShutdownStep(t))

\* get_pool calls that the timeout layer may abandon
CancelNext ==
    \/ \E t \in Tasks, s \in Schemas, a \in Apps : call_get_pool(t, s, a)
          /\ UNCHANGED <<txVars, guardVars, ddlVars, lateVars>>
    \/ \E t \in Tasks : get_pool_lookup(t)
          /\ UNCHANGED <<txVars, guardVars, ddlVars, lateVars>>
    \/ \E t \in Tasks, dbOk \in BOOLEAN : ensure_schema_exists(t, dbOk)
          /\ UNCHANGED <<txVars, guardVars, ddlVars, lateVars>>
    \/ \E t \in Tasks, dbOk \in BOOLEAN : create_pool(t, dbOk)
          /\ UNCHANGED <<txVars, guardVars, ddlVars, lateVars>>
    \/ \E t \in Tasks, dbOk \in BOOLEAN : get_pool_update_function(t, dbOk)
          /\ UNCHANGED <<txVars, guardVars, ddlVars, lateVars>>
    \/ \E t \in Tasks : get_pool_insert(t)
          /\ UNCHANGED <<txVars, guardVars, ddlVars, lateVars>>
    \/ \E t \in Tasks : get_pool_ok(t)
          /\ UNCHANGED <<txVars, guardVars, ddlVars, lateVars>>
    \/ \E t \in Tasks : abandon_get_pool(t)
          /\ UNCHANGED <<txVars, guardVars, ddlVars, lateVars>>

\* the steps of a get_pool call by task t that is being polled
GetPoolStep(t) ==
    /\ \/ get_pool_lookup(t)
       \/ \E dbOk \in BOOLEAN : ensure_schema_exists(t, dbOk)
       \/ \E dbOk \in BOOLEAN : create_pool(t, dbOk)
       \/ \E dbOk \in BOOLEAN : get_pool_update_function(t, dbOk)
       \/ get_pool_insert(t)
       \/ get_pool_ok(t)
    /\ UNCHANGED <<txVars, guardVars, ddlVars, lateVars>>

\* a get_pool future that is still alive is polled until it returns; a
\* dropped future is polled no more
SpecCancel ==
    /\ Init
    /\ [][CancelNext]_vars
    /\ \A t \in Tasks : SF_vars(GetPoolStep(t))

\* the connectivity guard alone, second by second
GuardNext ==
    \/ \E t \in Tasks : call_verify(t)
          /\ UNCHANGED <<regVars, txVars, ddlVars, lateVars>>
    \/ \E t \in Tasks : verify_wait_connect(t)
          /\ UNCHANGED <<regVars, txVars, ddlVars, lateVars>>
    \/ \E t \in Tasks, dbOk \in BOOLEAN : verify_connected(t, dbOk)
          /\ UNCHANGED <<regVars, txVars, ddlVars, lateVars>>
    \/ \E t \in Tasks : verify_timeout(t)
          /\ UNCHANGED <<regVars, txVars, ddlVars, lateVars>>
    \/ \E t \in Tasks : verify_wait_query(t)
          /\ UNCHANGED <<regVars, txVars, ddlVars, lateVars>>
    \/ \E t \in Tasks, dbOk \in BOOLEAN : verify_query_done(t, dbOk)
          /\ UNCHANGED <<regVars, txVars, ddlVars, lateVars>>

SpecGuard == Init /\ [][GuardNext]_vars

\* concurrent runs of the baseline DDL against one namespace
DdlNext ==
    \/ \E t \in Tasks : call_create_tenants_table(t)
          /\ UNCHANGED <<regVars, txVars, guardVars, lateVars>>
    \/ \E t \in Tasks : create_updated_at_function(t)
          /\ UNCHANGED <<regVars, txVars, guardVars, lateVars>>
    \/ \E t \in Tasks : create_tenants_table(t)
          /\ UNCHANGED <<regVars, txVars, guardVars, lateVars>>
    \/ \E t \in Tasks : drop_trigger_if_exists(t)
          /\ UNCHANGED <<regVars, txVars, guardVars, lateVars>>
    \/ \E t \in Tasks : create_updated_at_trigger(t)
          /\ UNCHANGED <<regVars, txVars, guardVars, lateVars>>
    \/ \E r \in 1..MaxTenants : insert_tenant(r)
          /\ UNCHANGED <<regVars, txVars, guardVars, lateVars>>

SpecDDL == Init /\ [][DdlNext]_vars

\* no run of the baseline DDL is in progress
NoRunning == \A t \in Tasks : dpc[t] = "idle"

\* runs of the baseline DDL one after another
DdlSeqNext ==
    \/ \E t \in Tasks : NoRunning /\ call_create_tenants_table(t)
          /\ UNCHANGED <<regVars, txVars, guardVars, lateVars>>
    \/ \E t \in Tasks : create_updated_at_function(t)
          /\ UNCHANGED <<regVars, txVars, guardVars, lateVars>>
    \/ \E t \in Tasks : create_tenants_table(t)
          /\ UNCHANGED <<regVars, txVars, guardVars, lateVars>>
    \/ \E t \in Tasks : drop_trigger_if_exists(t)
          /\ UNCHANGED <<regVars, txVars, guardVars, lateVars>>
    \/ \E t \in Tasks : create_updated_at_trigger(t)
          /\ UNCHANGED <<regVars, txVars, guardVars, lateVars>>
    \/ \E r \in 1..MaxTenants : insert_tenant(r)
          /\ UNCHANGED <<regVars, txVars, guardVars, lateVars>>

SpecDDLSeq == Init /\ [][DdlSeqNext]_vars

\* the connection options built by one process
TlsNext ==
    \/ \E e \in EnvInputs : load(e)
          /\ UNCHANGED <<coreVars, httpVars, onceVars, keyVars, leaseVars, tenantVars, createVars>>
    \/ \E sch \in Schemas \cup {NoSchema} : create_connect_options(sch)
          /\ UNCHANGED <<coreVars, httpVars, onceVars, keyVars, leaseVars, tenantVars, createVars>>
    \/ rls_create_connect_options
          /\ UNCHANGED <<coreVars, httpVars, onceVars, keyVars, leaseVars, tenantVars, createVars>>

SpecTls == Init /\ [][TlsNext]_vars

\* requests through the layer stack, one at a time
HttpNext ==
    \/ \E time \in 0..MaxTime, size \in 0..MaxSize, fails \in BOOLEAN,
          handler \in HandlerStatuses :
              receive_request(time, size, fails, handler)
          /\ UNCHANGED <<coreVars, tlsVars, onceVars, keyVars, leaseVars, tenantVars, createVars>>
    \/ inner_service
          /\ UNCHANGED <<coreVars, tlsVars, onceVars, keyVars, leaseVars, tenantVars, createVars>>
    \/ handle_global_error
          /\ UNCHANGED <<coreVars, tlsVars, onceVars, keyVars, leaseVars, tenantVars, createVars>>
    \/ response_wrapper
          /\ UNCHANGED <<coreVars, tlsVars, onceVars, keyVars, leaseVars, tenantVars, createVars>>

SpecHttp == Init /\ [][HttpNext]_vars

\* concurrent and repeated initialize and get_pool calls of the single-pool
\* service
OnceNext ==
    \/ \E t \in Tasks : call_rls_initialize(t)
          /\ UNCHANGED <<coreVars, tlsVars, httpVars, keyVars, leaseVars, tenantVars, createVars>>
    \/ \E t \in Tasks : get_or_try_init_set(t)
          /\ UNCHANGED <<coreVars, tlsVars, httpVars, keyVars, leaseVars, tenantVars, createVars>>
    \/ \E t \in Tasks : get_or_try_init_run(t)
          /\ UNCHANGED <<coreVars, tlsVars, httpVars, keyVars, leaseVars, tenantVars, createVars>>
    \/ \E t \in Tasks, dbOk \in BOOLEAN : rls_create_pool(t, dbOk)
          /\ UNCHANGED <<coreVars, tlsVars, httpVars, keyVars, leaseVars, tenantVars, createVars>>
    \/ \E t \in Tasks, dbOk \in BOOLEAN : rls_initialize_schema(t, dbOk)
          /\ UNCHANGED <<coreVars, tlsVars, httpVars, keyVars, leaseVars, tenantVars, createVars>>
    \/ \E t \in Tasks : rls_get_pool(t)
          /\ UNCHANGED <<coreVars, tlsVars, httpVars, keyVars, leaseVars, tenantVars, createVars>>

SpecOnce == Init /\ [][OnceNext]_vars

\* get_pool and close_pool calls with schema and app arguments, one after
\* another
KeyNext ==
    \/ \E sch \in KeySchemas, a \in KeyApps : key_get_pool(sch, a)
          /\ UNCHANGED <<coreVars, tlsVars, httpVars, onceVars, leaseVars, tenantVars, createVars>>
    \/ \E sch \in KeySchemas, a \in KeyApps : key_close_pool(sch, a)
          /\ UNCHANGED <<coreVars, tlsVars, httpVars, onceVars, leaseVars, tenantVars, createVars>>

SpecKeys == Init /\ [][KeyNext]_vars

\* registry calls by tasks that may keep a connection checked out
LeaseNext ==
    \/ \E t \in Tasks : lease_call_get_pool(t) /\ UNCHANGED <<coreVars, tlsVars, httpVars, onceVars, keyVars, tenantVars, createVars>>
    \/ \E t \in Tasks : lease_get_pool_read(t) /\ UNCHANGED <<coreVars, tlsVars, httpVars, onceVars, keyVars, tenantVars, createVars>>
    \/ \E t \in Tasks : lease_get_pool_insert(t) /\ UNCHANGED <<coreVars, tlsVars, httpVars, onceVars, keyVars, tenantVars, createVars>>
    \/ \E t \in Tasks : acquire_connection(t) /\ UNCHANGED <<coreVars, tlsVars, httpVars, onceVars, keyVars, tenantVars, createVars>>
    \/ \E t \in Tasks : release_connection(t) /\ UNCHANGED <<coreVars, tlsVars, httpVars, onceVars, keyVars, tenantVars, createVars>>
    \/ \E t \in Tasks : lease_call_close(t) /\ UNCHANGED <<coreVars, tlsVars, httpVars, onceVars, keyVars, tenantVars, createVars>>
    \/ \E t \in Tasks : lease_close_remove(t) /\ UNCHANGED <<coreVars, tlsVars, httpVars, onceVars, keyVars, tenantVars, createVars>>
    \/ \E t \in Tasks : lease_close_done(t) /\ UNCHANGED <<coreVars, tlsVars, httpVars, onceVars, keyVars, tenantVars, createVars>>

\* what task t does without a new call being made: the steps of the call
\* it is in, and giving back the connection it works on
LeaseStep(t) ==
    /\ \/ lease_get_pool_read(t)
       \/ lease_get_pool_insert(t)
       \/ lease_close_remove(t)
       \/ lease_close_done(t)
       \/ release_connection(t)
    /\ UNCHANGED <<coreVars, tlsVars, httpVars, onceVars, keyVars, tenantVars, createVars>>

\* every task that can run is polled and the lock serves its waiters in
\* turn
SpecLease ==
    /\ Init
    /\ [][LeaseNext]_vars
    /\ \A t \in Tasks : SF_vars(LeaseStep(t))

\* requests through the tenant middleware, one at a time, while tenants are
\* registered and cache keys expire
TenantNext ==
    \/ \E h \in Headers : tenant_context_middleware(h)
          /\ UNCHANGED <<coreVars, tlsVars, httpVars, onceVars, keyVars, leaseVars, createVars>>
    \/ \E redisOk \in BOOLEAN : redis_tenant_exists(redisOk)
          /\ UNCHANGED <<coreVars, tlsVars, httpVars, onceVars, keyVars, leaseVars, createVars>>
    \/ \E poolOk, queryOk \in BOOLEAN : db_tenant_exists(poolOk, queryOk)
          /\ UNCHANGED <<coreVars, tlsVars, httpVars, onceVars, keyVars, leaseVars, createVars>>
    \/ \E redisOk \in BOOLEAN : redis_set_tenant(redisOk)
          /\ UNCHANGED <<coreVars, tlsVars, httpVars, onceVars, keyVars, leaseVars, createVars>>
    \/ tenant_next_run
          /\ UNCHANGED <<coreVars, tlsVars, httpVars, onceVars, keyVars, leaseVars, createVars>>
    \/ \E u \in Uuids : register_tenant(u)
          /\ UNCHANGED <<coreVars, tlsVars, httpVars, onceVars, keyVars, leaseVars, createVars>>
    \/ \E u \in Uuids : tenant_key_expires(u)
          /\ UNCHANGED <<coreVars, tlsVars, httpVars, onceVars, keyVars, leaseVars, createVars>>

SpecMiddleware == Init /\ [][TenantNext]_vars

\* create_tenant calls, one after the other
CreateNext ==
    \/ \E dbOk \in BOOLEAN : create_tenant_internal(dbOk)
          /\ UNCHANGED <<coreVars, tlsVars, httpVars, onceVars, keyVars, leaseVars,
                       tenantVars>>
    \/ \E dbOk \in BOOLEAN : insert_tenants_row(dbOk)
          /\ UNCHANGED <<coreVars, tlsVars, httpVars, onceVars, keyVars, leaseVars,
                       tenantVars>>
    \/ \E dbOk \in BOOLEAN : tx_commit(dbOk)
          /\ UNCHANGED <<coreVars, tlsVars, httpVars, onceVars, keyVars, leaseVars,
                       tenantVars>>
    \/ \E schemaOk, poolOk \in BOOLEAN : create_get_pool(schemaOk, poolOk)
          /\ UNCHANGED <<coreVars, tlsVars, httpVars, onceVars, keyVars, leaseVars,
                       tenantVars>>
    \/ \E dbOk \in BOOLEAN : create_tenant_info_table(dbOk)
          /\ UNCHANGED <<coreVars, tlsVars, httpVars, onceVars, keyVars, leaseVars,
                       tenantVars>>
    \/ \E dbOk \in BOOLEAN : insert_tenant_info(dbOk)
          /\ UNCHANGED <<coreVars, tlsVars, httpVars, onceVars, keyVars, leaseVars,
                       tenantVars>>

SpecCreate == Init /\ [][CreateNext]_vars

\* ===========================================================================
\* Properties
\* ===========================================================================

\* the caller of task t holds Ok(p) of a completed get_pool(k)
Got(t, k, p) ==
    /\ pc[t] = "idle"
    /\ res[t].op = "get_pool"
    /\ res[t].ok
    /\ res[t].key = k
    /\ res[t].pool = p

\* task t returns Ok(p) from get_pool in this step
ReturnsPool(t, p) ==
    /\ op[t] = "get_pool"
    /\ pc[t] # "idle"
    /\ pc'[t] = "idle"
    /\ res'[t].ok
    /\ res'[t].pool = p

\* every object the namespace of schema s needs exists
Provisioned(s) == RequiredObjs(s) \subseteq dbObjs

\* C1: for every key, at most one open pool constructed for it exists: two
\* callers that hold pools returned by get_pool for the same key, both open,
\* hold the same pool
C1_OneLivePoolPerKey ==
    \A t1, t2 \in Tasks : \A k \in AllKeys : \A p, q \in PoolIds :
        (Got(t1, k, p) /\ Got(t2, k, q) /\ ~is_closed(p) /\ ~is_closed(q))
            => p = q

\* C2: a pool that get_pool returns is not closed at the instant of the
\* return, on the fast path and on the slow path
C2_OpenAtReturn ==
    [][\A t \in Tasks : \A p \in PoolIds :
          ReturnsPool(t, p) => ~(p \in closed')]_vars

\* C3: when a provisioning step fails, the baseline DDL of initialize
\* included, the attempt fails entirely: after initialize has returned an
\* error from its baseline step with the master namespace not provisioned in
\* full, no pool for master is left in the registry
C3_FailedInitializeLeavesNoPool ==
    \A t \in Tasks :
        (/\ pc[t] = "idle"
         /\ res[t].op = "initialize"
         /\ ~res[t].ok
         /\ res[t].path = "baseline"
         /\ ~Provisioned(Master))
            => data_sources[PoolKey(Master, NoApp)] = NoPool

\* the caller of task t holds the result of a completed with_tenant whose
\* unit of work ran
Ran(t) ==
    /\ xpc[t] = "idle"
    /\ xres[t].op = "with_tenant"
    /\ xres[t].work # NoWork

\* C4: the tenant marker set by with_tenant is scoped to the call's
\* transaction: a connection that no transaction leases carries no marker,
\* and a transaction that begins on a reused connection finds no marker of
\* an earlier call
C4_MarkerScopedToTransaction ==
    /\ \A c \in Conns : connOwner[c] = 0 => CurrentTenant(c) = NoTenant
    /\ \A t \in Tasks : xbegin[t] = NoTenant

\* C4 witness: a call for one tenant has ended (commit or rollback) after
\* its marker was set, and a call for another tenant has begun its
\* transaction on the same connection
C4_Witness ==
    \E t1, t2 \in Tasks :
        /\ Ran(t1)
        /\ xpc[t2] = "wt_marker"
        /\ xconn[t2] = xres[t1].conn
        /\ xtenant[t2] # xres[t1].tenant

\* C5: inside with_tenant(t1, work) a query on a tenant-scoped table returns
\* no row whose tenant_id differs from t1
C5_TenantIsolation ==
    \A t \in Tasks : \A r \in xseen[t] : r.tenant_id = xtenant[t]

\* C5 witness: a query inside with_tenant returned a row of its tenant while
\* the table held a row of another tenant, which it left out
C5_Witness ==
    \E t \in Tasks :
        /\ xseen[t] # {}
        /\ \E r \in xhidden[t] : r.tenant_id # xtenant[t] /\ r \in committed

\* C6: the writes of a unit of work that returned an error are rolled back
\* as a whole: none of its rows is committed or seen by a later transaction
C6_FailedWorkNotObservable ==
    /\ \A r \in committed : <<r.id, "work_failed">> \notin lost
    /\ \A t \in Tasks : \A r \in xseen[t] :
           <<r.id, "work_failed">> \notin lost

\* C6 witness: a unit of work wrote a row and returned an error, its call
\* has returned, and a later transaction has queried the table
C6_Witness ==
    \E t1, t2 \in Tasks :
        /\ Ran(t1)
        /\ ~xres[t1].work.ok
        /\ \E x \in lost : x[2] = "work_failed"
        /\ t1 # t2
        /\ xseen[t2] # {}

\* C7: when work returns Err(e), with_tenant calls rollback and returns
\* exactly e, unwrapped, whether or not the rollback itself succeeded
C7_OriginalErrorReturned ==
    \A t \in Tasks :
        (Ran(t) /\ ~xres[t].work.ok)
            => /\ xres[t].rollback \in {"ok", "failed"}
               /\ xres[t].commit = "none"
               /\ ~xres[t].ok
               /\ xres[t].val = xres[t].work.val
               /\ xres[t].context = "none"

\* C7 witness: work returned Err(e), the rollback failed, and the caller
\* holds Err(e)
C7_Witness ==
    \E t \in Tasks :
        /\ Ran(t)
        /\ xres[t].work = [ok |-> FALSE, val |-> "e2"]
        /\ xres[t].rollback = "failed"
        /\ xres[t].val = "e2"

C9_SequentialCallsSamePool ==
    \A t1, t2 \in Tasks : \A k \in AllKeys : \A p, q \in PoolIds :
        (t1 # t2 /\ Got(t1, k, p) /\ Got(t2, k, q)
           /\ ~is_closed(p) /\ ~is_closed(q))
            => /\ p = q
               /\ ~(res[t1].path = "slow" /\ res[t2].path = "slow")
               /\ data_sources[k] = p

\* C9 witness: two callers hold the same open pool of one key, the second
\* from the cache
C9_Witness ==
    \E t1, t2 \in Tasks : \E k \in AllKeys : \E p \in PoolIds :
        /\ t1 # t2
        /\ Got(t1, k, p) /\ Got(t2, k, p)
        /\ ~is_closed(p)
        /\ res[t1].path = "slow" /\ res[t2].path = "fast"

\* C10: after close_pool(k) has completed, a get_pool(k) call returns a
\* fresh open pool: a pool that has been closed is not returned
C10_ClosedPoolNotReturned ==
    [][\A t \in Tasks : \A p \in PoolIds :
          (afterClose[t] /\ ReturnsPool(t, p)) => ~is_closed(p)]_vars

\* C11: starting with the namespace "tenants" absent, the first
\* get_pool("tenants") returns only after the schema, the table and the
\* trigger exist, and a call served from the cache executes no DDL and
\* constructs no pool
C11_FirstUseProvisionsTenants ==
    [][\A t \in Tasks : \A p \in PoolIds :
          (ReturnsPool(t, p) /\ key[t] = PoolKey(Tenants, NoApp))
              => /\ {<<"schema", Tenants>>, <<"table", Tenants>>,
                     <<"trigger", Tenants>>} \subseteq dbObjs'
                 /\ res'[t].path = "fast"
                        => (dbObjs' = dbObjs /\ nPools' = nPools)]_vars

\* C12: close_pool(k) for an absent key returns Ok and changes nothing; for
\* a present key it removes and closes the pool of k only: every other
\* key's entry and every other pool's open state stay as they are
C12_ClosePoolTouchesOnlyItsKey ==
    [][\A t \in Tasks :
          (op[t] = "close_pool" /\ pc'[t] # pc[t])
              => LET k == key[t]
                     p == data_sources[k]
                 IN  /\ \A k2 \in AllKeys \ {k} :
                            data_sources'[k2] = data_sources[k2]
                     /\ \A q \in PoolIds \ {p} : (q \in closed') = (q \in closed)
                     /\ (pc[t] = "cp_enter" /\ p = NoPool)
                            => /\ data_sources' = data_sources
                               /\ closed' = closed
                               /\ pc'[t] = "idle"
                     /\ (pc[t] = "cp_enter" /\ p # NoPool)
                            => (data_sources'[k] = NoPool /\ p \in closed')
                     /\ pc'[t] = "idle" => res'[t].ok]_vars

\* C12 witness: one close_pool removed and closed the pool of its key while
\* another key's pool stays open in the registry, and one close_pool found
\* its key absent
C12_Witness ==
    \E t1, t2 \in Tasks : \E k2 \in AllKeys :
        /\ pc[t1] = "idle" /\ res[t1].op = "close_pool"
        /\ res[t1].path = "closed" /\ res[t1].ok
        /\ k2 # res[t1].key
        /\ data_sources[k2] # NoPool /\ ~is_closed(data_sources[k2])
        /\ pc[t2] = "idle" /\ res[t2].op = "close_pool"
        /\ res[t2].path = "absent" /\ res[t2].ok

C14_NoLivePoolAfterShutdown ==
    lastCloseAll
        => \A k \in AllKeys :
               data_sources[k] = NoPool \/ is_closed(data_sources[k])

\* C15: a close_all_pools (or shutdown) that directly follows another one
\* finds the registry empty, closes nothing and returns Ok
C15_SecondCloseAllIsNoOp ==
    [][\A t \in Tasks :
          (/\ op[t] \in {"close_all_pools", "shutdown"}
           /\ pc[t] = "ca_loop"
           /\ pc'[t] = "idle"
           /\ lastCloseAll)
              => /\ drained[t] = {}
                 /\ closed' = closed
                 /\ data_sources' = data_sources
                 /\ res'[t].ok]_vars

\* C15 witness: a close_all_pools that drained a pool was followed directly
\* by one that found nothing and returned Ok
C15_Witness ==
    \E t1, t2 \in Tasks :
        /\ lastCloseAll
        /\ pc[t1] = "idle" /\ res[t1].path = "drained" /\ res[t1].ok
        /\ res[t1].op \in {"close_all_pools", "shutdown"}
        /\ pc[t2] = "idle" /\ res[t2].path = "empty" /\ res[t2].ok
        /\ res[t2].op \in {"close_all_pools", "shutdown"}

\* C16: initialize runs the connectivity guard before it creates a pool or
\* executes DDL: the guard's step leaves the registry and the schema objects
\* as they are, and a failed guard returns the error at once
C16_GuardBeforeProvisioning ==
    [][\A t \in Tasks :
          (op[t] = "initialize" /\ pc[t] = "in_verify" /\ pc'[t] # pc[t])
              => /\ lpool[t] = NoPool
                 /\ data_sources' = data_sources
                 /\ dbObjs' = dbObjs
                 /\ nPools' = nPools
                 /\ pc'[t] = "idle"
                        => (~res'[t].ok /\ res'[t].path = "verify")
                 /\ pc'[t] # "idle"
                        => (pc'[t] = "gp_enter"
                            /\ key'[t] = PoolKey(Master, NoApp))]_vars

\* C16 witness: initialize has returned the guard's error with the registry
\* empty, no pool constructed and no schema object created
C16_Witness ==
    \E t \in Tasks :
        /\ pc[t] = "idle"
        /\ res[t].op = "initialize" /\ ~res[t].ok /\ res[t].path = "verify"
        /\ \A k \in AllKeys : data_sources[k] = NoPool
        /\ nPools = 0
        /\ dbObjs = {}

\* C17: the connectivity guard is bounded in total: while a guard is
\* waiting, no more than the 5 seconds of its timeout have passed since it
\* started
C17_GuardTimeBounded ==
    \A t \in Tasks : gpc[t] # "idle" => gclock[t] <= ConnectTimeout

C19_BaselineIdempotent ==
    [][\A t \in Tasks :
          (dpc[t] # "idle" /\ dpc'[t] # dpc[t])
              => /\ dRows' = dRows
                 /\ dpc'[t] = "idle"
                        => /\ dres'[t].ok
                           /\ dFunction' /\ dTable' /\ dTrigger'
                           /\ dres'[t].rows \subseteq dRows']_vars

\* C19 witness: a first run and, after it, a second run over a table that
\* held a row have both succeeded, and the row is still there
C19_Witness ==
    \E t1, t2 \in Tasks :
        /\ NoRunning
        /\ dres[t1].done /\ dres[t1].ok /\ dres[t1].first
        /\ dres[t2].done /\ dres[t2].ok /\ ~dres[t2].first
        /\ dres[t2].rows # {}
        /\ dres[t2].rows \subseteq dRows
        /\ dFunction /\ dTable /\ dTrigger

\* C20: for every interleaving of the statements of two concurrent runs of
\* the baseline DDL, both runs succeed
C20_ConcurrentRunsSucceed ==
    \A t \in Tasks : dres[t].done => dres[t].ok

\* C21: when the caller of get_pool(k) abandons the request while the
\* provisioning is in flight, the pool for k is eventually in the registry
C21_AbandonedProvisioningCompletes ==
    \A t \in Tasks : \A k \in AllKeys :
        (pc[t] = "idle" /\ res[t].path = "abandoned" /\ res[t].key = k)
            ~> (data_sources[k] # NoPool)

\* C22: every connection option built has TLS mode "require" exactly when
\* the environment tag is production, and "prefer" for development and
\* staging, whatever the namespace
C22_TlsModeByEnvironment ==
    \A i \in DOMAIN optLog :
        optLog[i].ssl_mode =
            IF environment = "production" THEN "require" ELSE "prefer"

\* C23: a response that has passed the layer stack has HTTP status 408
\* when the handling time exceeded the timeout, 413 when the body exceeded
\* the limit and 500 for any other layer error; the envelope's code equals
\* the HTTP status, and for a layer error both equal the status_code of the
\* error handler's HandlerResponse
C23_LayerErrorStatus ==
    hpc = "done"
        => /\ hresp.code = hresp.status
           /\ herr = "Elapsed" => hresp.status = REQUEST_TIMEOUT
           /\ herr = "LengthLimitError" => hresp.status = PAYLOAD_TOO_LARGE
           /\ herr = "Other" => hresp.status = INTERNAL_SERVER_ERROR
           /\ herr # "none" => hresp.status = hresp.ext

\* C24: while work runs (and until its transaction ends) the pool is set,
\* the call holds a transaction on a leased connection and that
\* transaction's marker is exactly the call's tenant_id; a with_tenant that
\* returned because get_pool, begin or the marker statement failed has not
\* invoked work, returned an error, called no commit and changed no
\* committed row
C24_WorkOnlyAfterMarker ==
    /\ [](\A t \in Tasks :
              /\ xpc[t] \in {"wt_work", "wt_commit", "wt_rollback"}
                     => /\ cell
                        /\ xconn[t] \in Conns
                        /\ connOwner[xconn[t]] = t
                        /\ localMarker[xconn[t]] = xtenant[t]
              /\ (/\ xpc[t] = "idle"
                  /\ xres[t].op = "with_tenant"
                  /\ \/ xres[t].val = "Database pool not initialized"
                     \/ xres[t].context \in {"Failed to begin transaction",
                                              "Failed to set tenant context"})
                     => /\ xres[t].work = NoWork
                        /\ ~xres[t].ok
                        /\ xres[t].commit = "none")
    /\ [][\A t \in Tasks :
              (/\ xpc[t] \in {"idle", "wt_begin", "wt_marker"}
               /\ xpc'[t] = "idle"
               /\ xres'[t] # xres[t])
                  => committed' = committed]_vars

\* C24 witness: one call is inside work with its tenant's marker set in its
\* transaction while another call has returned the marker statement's error
\* without invoking work
C24_Witness ==
    \E t1, t2 \in Tasks :
        /\ xpc[t1] = "wt_work"
        /\ localMarker[xconn[t1]] = xtenant[t1]
        /\ xtenant[t1] = "tB"
        /\ xpc[t2] = "idle"
        /\ xres[t2].op = "with_tenant"
        /\ xres[t2].context = "Failed to set tenant context"
        /\ xres[t2].work = NoWork

\* C25: the single-pool get_pool hands no closed pool to its caller: when an
\* initialize or with_tenant call obtains the pool from get_pool, close()
\* has not been called on it
C25_SinglePoolNotClosed ==
    [][\A t \in Tasks :
          (xpc[t] = "idle" /\ xpc'[t] \in {"ini_schema", "wt_begin"})
              => ~cellClosed]_vars

\* C28: however many initialize() calls run, at most one pool is
\* constructed and stored, the stored pool is never replaced and it is the
\* pool every get_pool() returns; while no construction has succeeded the
\* cell is empty and get_pool() returns an error, and an initialize() whose
\* construction fails leaves the cell as it was
C28_OnePoolInCell ==
    /\ [](/\ nBuilt <= 1
          /\ onceValue = nBuilt
          /\ \A t \in Tasks :
                 (ires[t].op = "get_pool" /\ ires[t].ok)
                     => (ires[t].pool = onceValue /\ onceValue # NoPool))
    /\ [][/\ onceValue # NoPool => onceValue' = onceValue
          /\ \A t \in Tasks :
                 /\ (ires'[t] # ires[t] /\ ires'[t].op = "get_pool")
                        => (ires'[t].ok <=> onceValue # NoPool)
                 /\ (ires'[t] # ires[t] /\ ires'[t].at = "create_pool")
                        => (onceValue' = onceValue /\ oncePermit' = 0)]_vars

\* C28 witness: one initialize failed in create_pool, a later initialize
\* succeeded, and a get_pool after it returned the one pool constructed
C28_Witness ==
    \E t1, t2 \in Tasks :
        /\ ires[t1].op = "initialize" /\ ~ires[t1].ok
        /\ ires[t1].at = "create_pool"
        /\ ires[t2].op = "get_pool" /\ ires[t2].ok
        /\ ires[t2].pool = 1
        /\ nBuilt = 1

\* C26: the pool get_pool(schema, app) returns is bound to the requested
\* schema: its search_path is schema, also when another (schema, app) pair
\* formats to the same key string
C26_PoolBoundToRequestedSchema ==
    kres.ok => kres.pool.search_path = kres.schema

\* C27: no interleaving of get_pool, close_pool and close_all_pools
\* deadlocks, also when a task calls get_pool while it holds a connection
\* of the pool being closed: every call eventually returns
C27_RegistryCallsReturn ==
    \A t \in Tasks : (lpc[t] # "idle") ~> (lpc[t] = "idle")

\* C29: the middleware goes on towards the handler only for a header that
\* is present and parses as a UUID whose tenant it found in the cache or,
\* after a cache miss or a Redis failure, in the tenants table; the handler
\* is invoked with a TenantContext of exactly that UUID; every rejection
\* has status 401, 400 or 500 and invokes no handler
C29_OnlyKnownTenantsPass ==
    /\ [](/\ mres.invoked
                 => /\ HeaderText(mheader) # <<>>
                    /\ mres.ctx \in Uuids
                    /\ mres.ctx = ParseUuid(HeaderText(mheader))
          /\ (mpc = "idle" /\ ~mres.invoked /\ mres # NoMRes)
                 => mres.status \in {UNAUTHORIZED, BAD_REQUEST,
                                     INTERNAL_SERVER_ERROR}
          /\ mpc \in {"set", "next"}
                 => mtenant = ParseUuid(HeaderText(mheader)))
    /\ [][/\ (mpc = "redis" /\ mpc' = "next") => mtenant \in mcache
          /\ (mpc = "redis" /\ ~mredisOk') => mpc' = "db"
          /\ (mpc = "db" /\ mpc' = "set") => mtenant \in mtable
          /\ mres'.invoked /\ mres' # mres => mpc = "next"]_vars

\* C29 witness: a request whose Redis lookup failed was validated against
\* the tenants table and its handler was invoked with the parsed UUID, the
\* header being in simple form
C29_Witness ==
    /\ mpc = "idle"
    /\ mres.invoked
    /\ ~mredisOk
    /\ mheader = <<"text", "simple", "B">>
    /\ mres.ctx = "B"
    /\ "B" \in mtable

\* C30: tenant creation is atomic: once create_tenant_internal has
\* returned, every row of the master tenants table belongs to a tenant
\* whose schema, tenant_info table and tenant_info row exist, and a call
\* that returned an error left no row for its tenant
C30_TenantCreationAtomic ==
    cpc = "idle" =>
        /\ \A i \in ctenants : i \in cschemas /\ i \in cinfotab /\ i \in cinfo
        /\ ~cres.ok => cres.id \notin ctenants

====
